---- MODULE Spec2Model ----
(***************************************************************************)
(* Model of the JSON datastore of Viks Media (src/unnamed/part_000): the   *)
(* in-memory `state` object, the write queue in front of data/app.json,    *)
(* and the store operations, one action per exported function.             *)
(*                                                                         *)
(* Conventions.                                                            *)
(*   - JavaScript null is Null (the empty tuple); a non-null value v in a  *)
(*     nullable position is Some(v) = <<v>>.                               *)
(*   - A JavaScript string that the code builds or compares character by   *)
(*     character (a comment path) is a sequence of character codes; a      *)
(*     string that is only stored and compared for equality is a TLA+      *)
(*     string.                                                             *)
(*   - Ids given to the operations are integers, on which toInt() returns  *)
(*     its argument.                                                       *)
(*   - nowIso() is a reading of `clock`, which may advance by one between  *)
(*     two readings and never goes back; timestamps are clock readings.    *)
(*   - `disk` is the content of data/app.json and `tmp` the content of     *)
(*     data/app.json.tmp; `fs` is what the file system does to the next    *)
(*     write, `proc` where the process is in its life and whether its last *)
(*     call threw, `pc` where the running HTTP handler is.                 *)
(***************************************************************************)
EXTENDS Integers, Sequences, FiniteSets, TLC

VARIABLES state, writeQueue, isWriting, disk, tmp, fs, proc, pc, clock, call

vars == <<state, writeQueue, isWriting, disk, tmp, fs, proc, pc, clock, call>>

----------------------------------------------------------------------------
(* Bounds of the model. *)

MaxUsers == 2
MaxPosts == 2
MaxComments == 3
MaxTime == 2
MaxReports == 2
MaxLikes == 3
MaxBookmarks == 2
MaxReactions == 3
MaxToggleIds == 2
MaxModTargets == 1
MaxActions == 2
MaxRowsAfterLoad == 3
MaxQueue == 2
MaxFeedPosts == 3
MaxRouteRows == 1
MaxAdminActions == 3

----------------------------------------------------------------------------
(* Values. *)

Null == <<>>
Some(v) == <<v>>

REACTIONS == {"like", "heart", "fire", "clap"}
ROLES == {"user", "moderator", "admin"}
USER_STATUS == {"active", "suspended", "banned"}
REPORT_STATUS == {"open", "in_review", "resolved", "dismissed"}
REPORT_TARGETS == {"post", "comment", "user"}

UserIds == 1..MaxUsers
PostIds == 1..MaxPosts
\* comment ids an operation may be given: every id that can exist, and one that cannot
CommentIdArgs == 1..(MaxComments + 1)
ReportIdArgs == 1..(MaxReports + 1)
Reasons == {"spam"}
Bodies == {"hi"}
\* the viewers a read may be given: anonymous, or a user with any role
Viewers == {Null} \cup {Some([id |-> u, role |-> r]) : u \in UserIds, r \in ROLES}

\* character codes of the characters a comment path is made of
CharDot == 46
CharZero == 48
PadWidth == 10
CharSpace == 32
CharUpperA == 65
CharUpperZ == 90
CaseOffset == 32
CharLowerA == 97
CharLowerZ == 122
CharNine == 57
CharHyphen == 45
MaxTagNames == 5
MAX_PAGE_SIZE == 30
DefaultPageSize == 10
MinTitleLength == 6

\* the seed categories; a slug is written as its character codes
categorySeed ==
  << [name |-> "Videography",  \* slug "videography"
       slug |-> <<118, 105, 100, 101, 111, 103, 114, 97, 112, 104, 121>>,
       description |-> "Filmmaking, reels, edits, and camera movement.",
       sort_order |-> 1],
     [name |-> "Photography",  \* slug "photography"
       slug |-> <<112, 104, 111, 116, 111, 103, 114, 97, 112, 104, 121>>,
       description |-> "Portraits, street, studio, and color grading.",
       sort_order |-> 2],
     [name |-> "Creators",  \* slug "creators"
       slug |-> <<99, 114, 101, 97, 116, 111, 114, 115>>,
       description |-> "Creator economy, growth, and production workflows.",
       sort_order |-> 3],
     [name |-> "Post-Production",  \* slug "post-production"
       slug |-> <<112, 111, 115, 116, 45, 112, 114, 111, 100, 117, 99, 116,
                  105, 111, 110>>,
       description |-> "Editing, sound design, VFX, and finishing.",
       sort_order |-> 4],
     [name |-> "Gear",  \* slug "gear"
       slug |-> <<103, 101, 97, 114>>,
       description |-> "Cameras, lenses, lights, drones, and reviews.",
       sort_order |-> 5],
     [name |-> "Industry",  \* slug "industry"
       slug |-> <<105, 110, 100, 117, 115, 116, 114, 121>>,
       description |-> "Media business, agencies, and production trends.",
       sort_order |-> 6],
     [name |-> "Inspiration",  \* slug "inspiration"
       slug |-> <<105, 110, 115, 112, 105, 114, 97, 116, 105, 111, 110>>,
       description |-> "Reference projects and visual storytelling ideas.",
       sort_order |-> 7] >>

----------------------------------------------------------------------------
(* Pure helpers. *)

\* String(n) for an integer n, as character codes
RECURSIVE DecimalString(_)
DecimalString(n) ==
  IF n < 0 THEN <<CharHyphen>> \o DecimalString(0 - n)
  ELSE IF n < 10 THEN <<CharZero + n>>
  ELSE DecimalString(n \div 10) \o <<CharZero + (n % 10)>>

\* s.padStart(targetLength, ch): pads on the left, never truncates
padStart(s, targetLength, ch) ==
  IF Len(s) >= targetLength THEN s
  ELSE [i \in 1..(targetLength - Len(s)) |-> ch] \o s

padId(value) == padStart(DecimalString(value), PadWidth, CharZero)

\* a.startsWith(prefix)
startsWith(a, prefix) ==
  /\ Len(prefix) <= Len(a)
  /\ SubSeq(a, 1, Len(prefix)) = prefix

\* a.localeCompare(b) for strings over '.', '0'..'9': the collation orders
\* '.' before the digits and the digits by value, as their codes do, and a
\* proper prefix before its extensions.  Negative, zero or positive.
RECURSIVE localeCompare(_, _)
localeCompare(a, b) ==
  IF a = <<>> /\ b = <<>> THEN 0
  ELSE IF a = <<>> THEN -1
  ELSE IF b = <<>> THEN 1
  ELSE IF Head(a) # Head(b) THEN Head(a) - Head(b)
  ELSE localeCompare(Tail(a), Tail(b))

\* s.toLowerCase() on a string of ASCII characters
toLowerCase(s) ==
  [i \in 1..Len(s) |-> IF CharUpperA <= s[i] /\ s[i] <= CharUpperZ
                       THEN s[i] + CaseOffset ELSE s[i]]

\* s.trim(): the string without its leading and trailing spaces
trim(s) ==
  LET kept == {i \in 1..Len(s) : s[i] # CharSpace} IN
  IF kept = {} THEN <<>>
  ELSE SubSeq(s, CHOOSE i \in kept : \A j \in kept : i <= j,
                 CHOOSE i \in kept : \A j \in kept : j <= i)

\* normalizeText(input) for a string
normalizeText(input) == trim(toLowerCase(input))

\* the characters of s at the indices in keep, in order
pick(s, keep) ==
  LET F[i \in 0..Len(s)] ==
        IF i = 0 THEN <<>>
        ELSE IF i \in keep THEN Append(F[i - 1], s[i]) ELSE F[i - 1]
  IN F[Len(s)]

\* slugify(input) for a string: lower case, trimmed, every run of characters
\* outside a-z and 0-9 replaced by one hyphen, no hyphen at either end
slugify(input) ==
  LET lower == trim(toLowerCase(input))
      alnum(c) == \/ CharLowerA <= c /\ c <= CharLowerZ
                  \/ CharZero <= c /\ c <= CharNine
      mapped == [i \in 1..Len(lower) |->
                   IF alnum(lower[i]) THEN lower[i] ELSE CharHyphen]
      letters == {i \in 1..Len(lower) : alnum(lower[i])}
      keep == letters \cup
              {i \in 1..Len(lower) :
                 /\ ~alnum(lower[i])
                 /\ i > 1 /\ alnum(lower[i - 1])
                 /\ \E j \in letters : j > i}
  IN pick(mapped, keep)

isReaction(value) == value \in REACTIONS
isRole(value) == value \in ROLES
isUserStatus(value) == value \in USER_STATUS
isReportStatus(value) == value \in REPORT_STATUS

isModeratorRole(role) == role = "moderator" \/ role = "admin"

\* canViewHidden without the author's own view: staff only
canViewHiddenStaffOnly(viewer, authorId) ==
  IF viewer = Null THEN FALSE
  ELSE isModeratorRole(viewer[1].role)

canViewHidden(viewer, authorId) ==
  IF viewer = Null THEN FALSE
  ELSE IF viewer[1].id = authorId THEN TRUE
  ELSE isModeratorRole(viewer[1].role)

\* the index items.find(test) stops at, given the indices that pass the
\* test: the first of them, 0 when there is none
firstIndex(hits) ==
  IF hits = {} THEN 0 ELSE CHOOSE i \in hits : \A j \in hits : i <= j

----------------------------------------------------------------------------
(* The store. *)

baseState ==
  [ schema_version |-> 2,
    counters |-> [ users |-> 0, categories |-> 0, posts |-> 0, likes |-> 0,
                   comments |-> 0, tags |-> 0, bookmarks |-> 0,
                   comment_reactions |-> 0, reports |-> 0,
                   moderation_actions |-> 0 ],
    users |-> <<>>, categories |-> <<>>, posts |-> <<>>, likes |-> <<>>,
    comments |-> <<>>, tags |-> <<>>, post_tags |-> <<>>, bookmarks |-> <<>>,
    comment_reactions |-> <<>>, reports |-> <<>>, moderation_actions |-> <<>>,
    search_index_meta |-> [last_rebuild_at |-> Null] ]

\* the entity kinds that have an id counter, and the collections of the store
Kinds == DOMAIN baseState.counters
Collections == Kinds \cup {"post_tags"}

\* nextId that numbers a row by its place in the collection
nextIdFromLength(st, entity) == Len(st[entity]) + 1

\* the counter value nextId(entity) stores and returns
nextId(st, entity) == st.counters[entity] + 1

\* the state after ensureCategoriesSeeded()
ensureCategoriesSeeded(st) ==
  IF Len(st.categories) > 0 THEN st
  ELSE [st EXCEPT
          !.categories = [i \in 1..Len(categorySeed) |->
                            [ id |-> st.counters.categories + i,
                              name |-> categorySeed[i].name,
                              slug |-> categorySeed[i].slug,
                              description |-> categorySeed[i].description,
                              sort_order |-> categorySeed[i].sort_order ]],
          !.counters.categories = st.counters.categories + Len(categorySeed)]

\* JSON.stringify(state, null, 2): the snapshot determines every collection,
\* counter and field of the state it was taken of, and nothing else
snapshot(st) == st

\* a file that does not exist, and a file whose content is a proper prefix of
\* a snapshot (JSON.parse throws on it); any other file content is a snapshot
Absent == [exists |-> FALSE]
Partial == [exists |-> TRUE]
isSnapshot(file) == "counters" \in DOMAIN file

\* what the file system does to the next writeAtomic(): both calls succeed,
\* fs.writeFileSync throws, fs.renameSync throws, or the process is killed
\* inside fs.writeFileSync or between the two calls
FsFates == {"ok", "write_fails", "rename_fails", "killed_in_write",
            "killed_before_rename"}

\* how flushWriteQueue() ends when it is entered now
flushOutcome ==
  IF isWriting THEN "skipped"
  ELSE IF fs = "ok" THEN "written"
  ELSE IF fs \in {"write_fails", "rename_fails"} THEN "threw"
  ELSE "killed"

\* writeAtomic(payload) under the file system's fate: the temporary file is
\* written, then renamed over data/app.json
writeAtomic(payload) ==
  /\ tmp' \in (IF fs = "ok" THEN {Absent}
               ELSE IF fs \in {"rename_fails", "killed_before_rename"}
               THEN {payload}
               ELSE IF fs = "write_fails" THEN {tmp, Partial}
               ELSE {Partial})
  /\ disk' = IF fs = "ok" THEN payload ELSE disk

\* flushWriteQueue that leaves the queue to a later turn
flushWriteQueueLater(queue) ==
  /\ writeQueue' = queue
  /\ UNCHANGED <<isWriting, disk, tmp>>

\* flushWriteQueue that empties the queue and writes nothing
flushWriteQueueDropping(queue) ==
  /\ writeQueue' = <<>>
  /\ UNCHANGED <<isWriting, disk, tmp>>

\* flushWriteQueue() with the queue as the argument: nothing when a flush is
\* marked as running; else the queued snapshots are written in order, and
\* the mark is cleared only when the loop ends without an exception
flushWriteQueue(queue) ==
  IF isWriting
  THEN /\ writeQueue' = queue
       /\ UNCHANGED <<isWriting, disk, tmp>>
  ELSE IF fs = "ok"
  THEN /\ writeQueue' = <<>>
       /\ writeAtomic(queue[Len(queue)])
       /\ isWriting' = FALSE
  ELSE /\ writeQueue' = Tail(queue)
       /\ writeAtomic(Head(queue))
       /\ isWriting' = TRUE

\* enqueueWrite() after the call has brought the state to st: the snapshot
\* is pushed, and flushWriteQueue() writes the queued snapshots in order
\* unless a flush is marked as running
enqueueWrite(st) ==
  /\ flushWriteQueue(Append(writeQueue, snapshot(st)))
  /\ proc' = [at |-> IF flushOutcome = "killed" THEN "dead" ELSE proc.at,
              threw |-> flushOutcome = "threw"]
  /\ UNCHANGED fs

\* a call that returns before it reaches enqueueWrite()
noWrite ==
  /\ UNCHANGED <<writeQueue, isWriting, disk, tmp, fs>>
  /\ proc' = [proc EXCEPT !.threw = FALSE]

\* the handler position before the first request: `at` is "idle" between
\* two requests and "audit" between a moderation route's store call and its
\* addModerationAction call; `audit` is the payload the route is about to
\* log, `outcome` how the last moderation request ended
Idle == [at |-> "idle", audit |-> Null, outcome |-> ""]

\* the values nowIso() can return at this point
nowIso == {t \in {clock, clock + 1} : t <= MaxTime}

Init ==
  /\ state = ensureCategoriesSeeded(baseState)
  /\ writeQueue = <<>>
  /\ isWriting = FALSE
  /\ disk = snapshot(state)
  /\ tmp = Absent
  /\ fs = "ok"
  /\ proc = [at |-> "ready", threw |-> FALSE]
  /\ pc = Idle
  /\ clock = 1
  /\ call = [op |-> "loadState", args |-> <<>>, ret |-> Null, writes |-> 1]

----------------------------------------------------------------------------
(* Comments. *)

\* JavaScript truthiness of a nullable id: null and 0 are falsy
truthy(value) == value # Null /\ value[1] # 0

getCommentRawById(st, commentId) ==
  LET i == firstIndex({j \in 1..Len(st.comments) : st.comments[j].id = commentId})
  IN IF i = 0 THEN Null ELSE Some(st.comments[i])

\* buildCommentPath from the parent's id instead of the parent's path
buildCommentPathFromParentId(parent, newCommentId) ==
  IF parent = Null THEN padId(newCommentId)
  ELSE padId(parent[1].id) \o <<CharDot>> \o padId(newCommentId)

buildCommentPath(parent, newCommentId) ==
  IF parent = Null THEN padId(newCommentId)
  ELSE parent[1].path \o <<CharDot>> \o padId(newCommentId)

\* addComment without the check that the parent is on the same post
addCommentNoPostCheck(user_id, post_id, body, parent_comment_id) ==
  LET parent == IF truthy(parent_comment_id)
                THEN getCommentRawById(state, parent_comment_id[1])
                ELSE Null
      args == [post_id |-> post_id, parent_comment_id |-> parent_comment_id]
  IN
  \E now \in nowIso :
    LET id == nextId(state, "comments")
        comment == [ id |-> id,
                     user_id |-> user_id,
                     post_id |-> post_id,
                     parent_comment_id |->
                       IF parent # Null THEN Some(parent[1].id) ELSE Null,
                     depth |-> IF parent # Null THEN parent[1].depth + 1 ELSE 0,
                     path |-> buildCommentPath(parent, id),
                     body |-> body,
                     is_hidden |-> FALSE,
                     hidden_reason |-> "",
                     created_at |-> now ]
        st == [state EXCEPT !.counters.comments = id,
                            !.comments = Append(@, comment)]
    IN /\ state' = st
       /\ clock' = now
       /\ enqueueWrite(st)
       /\ call' = [op |-> "addComment", args |-> args,
                   ret |-> Some(comment), writes |-> 1]

addComment(user_id, post_id, body, parent_comment_id) ==
  LET parent == IF truthy(parent_comment_id)
                THEN getCommentRawById(state, parent_comment_id[1])
                ELSE Null
      args == [post_id |-> post_id, parent_comment_id |-> parent_comment_id]
  IN
  IF parent # Null /\ parent[1].post_id # post_id
  THEN /\ call' = [op |-> "addComment", args |-> args, ret |-> Null, writes |-> 0]
       /\ UNCHANGED <<state, clock>>
       /\ noWrite
  ELSE \E now \in nowIso :
         LET id == nextId(state, "comments")
             depth == IF parent # Null THEN parent[1].depth + 1 ELSE 0
             pathValue == buildCommentPath(parent, id)
             comment == [ id |-> id,
                          user_id |-> user_id,
                          post_id |-> post_id,
                          parent_comment_id |->
                            IF parent # Null THEN Some(parent[1].id) ELSE Null,
                          depth |-> depth,
                          path |-> pathValue,
                          body |-> body,
                          is_hidden |-> FALSE,
                          hidden_reason |-> "",
                          created_at |-> now ]
             st == [state EXCEPT !.counters.comments = id,
                                 !.comments = Append(@, comment)]
         IN /\ state' = st
            /\ clock' = now
            /\ enqueueWrite(st)
            /\ call' = [op |-> "addComment", args |-> args,
                        ret |-> Some(comment), writes |-> 1]

\* hideComment and unhideComment: the addressed comment gets the flag and the reason
setCommentHidden(op, commentId, hidden, reason) ==
  LET i == firstIndex({j \in 1..Len(state.comments) :
                         state.comments[j].id = commentId})
      args == [commentId |-> commentId]
  IN
  IF i = 0
  THEN /\ call' = [op |-> op, args |-> args, ret |-> Null, writes |-> 0]
       /\ UNCHANGED <<state, clock>>
       /\ noWrite
  ELSE LET st == [state EXCEPT !.comments[i].is_hidden = hidden,
                               !.comments[i].hidden_reason = reason]
       IN /\ state' = st
          /\ UNCHANGED clock
          /\ enqueueWrite(st)
          /\ call' = [op |-> op, args |-> args,
                      ret |-> Some(st.comments[i]), writes |-> 1]

hideComment(commentId, reason) ==
  setCommentHidden("hideComment", commentId, TRUE, reason)

unhideComment(commentId) ==
  setCommentHidden("unhideComment", commentId, FALSE, "")

\* a comparator by creation time alone
compareCommentsByCreation(a, b) == a.created_at - b.created_at

\* the comparator getVisibleCommentsForPost sorts with
compareComments(a, b) ==
  IF a.path = b.path THEN a.created_at - b.created_at
  ELSE localeCompare(a.path, b.path)

\* comments.sort(compareComments): the sort is stable, so with a comparator
\* that is a total preorder the result is the one an insertion sort gives:
\* each element goes behind the last already placed element that does not
\* compare above it
insertSorted(sorted, x) ==
  LET notAbove == {j \in 1..Len(sorted) : compareComments(sorted[j], x) <= 0}
      k == IF notAbove = {} THEN 0
           ELSE CHOOSE j \in notAbove : \A m \in notAbove : m <= j
  IN SubSeq(sorted, 1, k) \o <<x>> \o SubSeq(sorted, k + 1, Len(sorted))

sortComments(items) ==
  LET S[i \in 0..Len(items)] ==
        IF i = 0 THEN <<>>
        ELSE insertSorted(S[i - 1], items[i])
  IN S[Len(items)]

\* getVisibleCommentsForPost that drops a hidden comment but not what is below it
getVisibleCommentsNoPrune(st, postId, viewer) ==
  LET comments == sortComments(SelectSeq(st.comments,
                                       LAMBDA comment : comment.post_id = postId))
  IN SelectSeq(comments,
               LAMBDA comment :
                 ~(comment.is_hidden /\ ~canViewHidden(viewer, comment.user_id)))

getVisibleCommentsForPost(st, postId, viewer) ==
  LET comments == sortComments(SelectSeq(st.comments,
                                       LAMBDA comment : comment.post_id = postId))
      \* the loop over the sorted comments: after i of them
      Loop[i \in 0..Len(comments)] ==
        IF i = 0 THEN [hiddenPrefixes |-> {}, visible |-> <<>>]
        ELSE LET acc == Loop[i - 1]
                 comment == comments[i]
             IN IF \E prefix \in acc.hiddenPrefixes : startsWith(comment.path, prefix)
                THEN acc
                ELSE IF comment.is_hidden /\ ~canViewHidden(viewer, comment.user_id)
                THEN [acc EXCEPT !.hiddenPrefixes =
                                    @ \cup {comment.path \o <<CharDot>>}]
                ELSE [acc EXCEPT !.visible = Append(@, comment)]
  IN Loop[Len(comments)].visible

NextComments ==
  /\ UNCHANGED pc
  /\ \/ /\ state.counters.comments < MaxComments
        /\ \E user_id \in UserIds, post_id \in PostIds, body \in Bodies,
              parent_comment_id \in {Null} \cup {Some(c) : c \in CommentIdArgs} :
             addComment(user_id, post_id, body, parent_comment_id)
     \/ \E commentId \in CommentIdArgs, reason \in Reasons :
          hideComment(commentId, reason)
     \/ \E commentId \in CommentIdArgs : unhideComment(commentId)

SpecComments == Init /\ [][NextComments]_vars

----------------------------------------------------------------------------
(* Properties of the comment tree. *)

commentsOfPost(st, postId) ==
  {st.comments[i] : i \in {j \in 1..Len(st.comments) : st.comments[j].post_id = postId}}

idsOf(items) == [i \in 1..Len(items) |-> items[i].id]

\* the comments above a comment, found by following parent_comment_id
RECURSIVE ancestorsOf(_, _)
ancestorsOf(st, comment) ==
  IF comment.parent_comment_id = Null THEN {}
  ELSE LET parent == getCommentRawById(st, comment.parent_comment_id[1]) IN
       IF parent = Null THEN {}
       ELSE {parent[1]} \cup ancestorsOf(st, parent[1])

\* a hidden comment the viewer may not see: the viewer is anonymous, or is
\* neither the author nor a moderator or admin
invisibleTo(comment, viewer) ==
  /\ comment.is_hidden
  /\ \/ viewer = Null
     \/ /\ viewer[1].id # comment.user_id
        /\ viewer[1].role \notin {"moderator", "admin"}

\* the pre-order traversal of a post's comment tree, siblings by ascending id
childrenOf(st, postId, parent) ==
  {c.id : c \in {d \in commentsOfPost(st, postId) : d.parent_comment_id = parent}}

RECURSIVE preOrderOfSet(_, _, _)
preOrderOfSet(st, postId, ids) ==
  IF ids = {} THEN <<>>
  ELSE LET first == CHOOSE i \in ids : \A j \in ids : i <= j IN
       <<first>> \o preOrderOfSet(st, postId, childrenOf(st, postId, Some(first)))
                 \o preOrderOfSet(st, postId, ids \ {first})

preOrder(st, postId) == preOrderOfSet(st, postId, childrenOf(st, postId, Null))

\* C1: every comment with a parent has an existing parent on the same post,
\* path = parent.path + "." + padId(id) and depth = parent.depth + 1; every
\* comment without a parent has path = padId(id) and depth 0.
C1_PathAndDepth ==
  \A i \in 1..Len(state.comments) :
    LET c == state.comments[i] IN
    IF c.parent_comment_id # Null
    THEN \E j \in 1..Len(state.comments) :
           LET p == state.comments[j] IN
           /\ p.id = c.parent_comment_id[1]
           /\ p.post_id = c.post_id
           /\ c.path = p.path \o <<CharDot>> \o padId(c.id)
           /\ c.depth = p.depth + 1
    ELSE c.path = padId(c.id) /\ c.depth = 0

\* a reply to a reply exists, below a comment that has been hidden
C1_Witness ==
  \E i, j \in 1..Len(state.comments) :
    /\ state.comments[i].depth = 2
    /\ state.comments[j].depth = 1
    /\ state.comments[i].parent_comment_id = Some(state.comments[j].id)
    /\ state.comments[j].is_hidden

\* C2: getVisibleCommentsForPost returns no hidden comment the viewer may
\* not see and no comment below such a comment.
C2_HiddenSubtreePruned ==
  \A postId \in PostIds, viewer \in Viewers :
    LET visible == getVisibleCommentsForPost(state, postId, viewer) IN
    \A i \in 1..Len(visible) :
      /\ ~invisibleTo(visible[i], viewer)
      /\ \A a \in ancestorsOf(state, visible[i]) : ~invisibleTo(a, viewer)

\* a root comment was hidden, it has a reply that is not hidden, and the
\* anonymous viewer gets neither while the root's author gets both
C2_Witness ==
  /\ call.op = "hideComment"
  /\ \E i, j \in 1..Len(state.comments) :
       LET root == state.comments[i]
           reply == state.comments[j]
       IN /\ root.is_hidden /\ root.parent_comment_id = Null
          /\ reply.parent_comment_id = Some(root.id) /\ ~reply.is_hidden
          /\ getVisibleCommentsForPost(state, root.post_id, Null) = <<>>
          /\ idsOf(getVisibleCommentsForPost(state, root.post_id,
                     Some([id |-> root.user_id, role |-> "user"])))
               = <<root.id, reply.id>>

visibleTo(postId, viewer) == getVisibleCommentsForPost(state, postId, viewer)

\* C3 as claimed: every hidden comment of the viewer is returned, whatever
\* is above it.
C3_OwnHiddenAlwaysReturned ==
  \A postId \in PostIds, viewer \in Viewers \ {Null} :
    \A c \in commentsOfPost(state, postId) :
      (c.is_hidden /\ c.user_id = viewer[1].id)
        => \E i \in 1..Len(visibleTo(postId, viewer)) : visibleTo(postId, viewer)[i] = c

\* C3 as amended: every hidden comment of the viewer that has no ancestor
\* hidden from the viewer is returned.
C3_OwnHiddenReturnedUnlessPruned ==
  \A postId \in PostIds, viewer \in Viewers \ {Null} :
    \A c \in commentsOfPost(state, postId) :
      ( /\ c.is_hidden
        /\ c.user_id = viewer[1].id
        /\ \A a \in ancestorsOf(state, c) : ~invisibleTo(a, viewer) )
        => \E i \in 1..Len(visibleTo(postId, viewer)) : visibleTo(postId, viewer)[i] = c

\* a plain user's hidden reply under their own hidden comment is returned to them
C3_Witness ==
  \E i, j \in 1..Len(state.comments) :
    LET parent == state.comments[i]
        own == state.comments[j]
        viewer == Some([id |-> own.user_id, role |-> "user"])
    IN /\ own.is_hidden /\ parent.is_hidden
       /\ own.parent_comment_id = Some(parent.id)
       /\ own.user_id = parent.user_id
       /\ \E k \in 1..Len(getVisibleCommentsForPost(state, own.post_id, viewer)) :
            getVisibleCommentsForPost(state, own.post_id, viewer)[k] = own

\* C4: a moderator or admin gets the comments of a post in the pre-order of
\* the comment tree, siblings in ascending id order.
C4_PreOrder ==
  \A postId \in PostIds, u \in UserIds, role \in {"moderator", "admin"} :
    idsOf(getVisibleCommentsForPost(state, postId, Some([id |-> u, role |-> role])))
      = preOrder(state, postId)

\* a post whose pre-order is not its creation order: a later reply stands
\* before an earlier comment
C4_Witness ==
  \E postId \in PostIds :
    LET order == preOrder(state, postId) IN
    /\ Len(order) >= 3
    /\ \E i, j \in 1..Len(order) : i < j /\ order[i] > order[j]

\* C5: addComment with a parent on another post returns null and changes
\* nothing: no comment, no counter, no snapshot.
C5_CrossPostReplyRejected ==
  [][ ( /\ call'.op = "addComment"
        /\ truthy(call'.args.parent_comment_id)
        /\ getCommentRawById(state, call'.args.parent_comment_id[1]) # Null
        /\ getCommentRawById(state, call'.args.parent_comment_id[1])[1].post_id
             # call'.args.post_id )
      => ( /\ call'.ret = Null
           /\ call'.writes = 0
           /\ UNCHANGED <<state, writeQueue, isWriting, disk>> ) ]_vars

C5_Witness ==
  /\ call.op = "addComment"
  /\ call.ret = Null
  /\ truthy(call.args.parent_comment_id)
  /\ getCommentRawById(state, call.args.parent_comment_id[1]) # Null
  /\ getCommentRawById(state, call.args.parent_comment_id[1])[1].post_id
       # call.args.post_id

\* C6: addComment with a parent id that names no comment returns null and
\* creates no comment.
C6_MissingParentRejected ==
  [][ ( /\ call'.op = "addComment"
        /\ call'.args.parent_comment_id # Null
        /\ getCommentRawById(state, call'.args.parent_comment_id[1]) = Null )
      => ( /\ call'.ret = Null
           /\ state'.comments = state.comments ) ]_vars

----------------------------------------------------------------------------
(* Reports. *)

ReportTargetArgs == {"post"}
\* the target statuses resolveReport may be given: the four report statuses,
\* and one that is none of them
ReportStatusArgs == REPORT_STATUS \cup {"closed"}

createReport(reporter_user_id, target_type, target_id, reason_code, reason_text) ==
  \E now \in nowIso :
    LET report == [ id |-> nextId(state, "reports"),
                    reporter_user_id |-> reporter_user_id,
                    target_type |-> target_type,
                    target_id |-> target_id,
                    reason_code |-> reason_code,
                    reason_text |-> reason_text,
                    status |-> "open",
                    assigned_to_user_id |-> Null,
                    created_at |-> now,
                    resolved_at |-> Null ]
        st == [state EXCEPT !.counters.reports = report.id,
                            !.reports = Append(@, report)]
    IN /\ state' = st
       /\ clock' = now
       /\ enqueueWrite(st)
       /\ call' = [op |-> "createReport", args |-> <<>>,
                   ret |-> Some(report), writes |-> 1]

\* index in state.reports of the report getReportById(id) finds, 0 for none
getReportById(st, id) ==
  firstIndex({j \in 1..Len(st.reports) : st.reports[j].id = id})

assignReport(reportId, moderatorId) ==
  LET i == getReportById(state, reportId)
      args == [reportId |-> reportId, moderatorId |-> moderatorId]
  IN
  IF i = 0
  THEN /\ call' = [op |-> "assignReport", args |-> args, ret |-> Null, writes |-> 0]
       /\ UNCHANGED <<state, clock>>
       /\ noWrite
  ELSE LET st == [state EXCEPT
                    !.reports[i].assigned_to_user_id = Some(moderatorId),
                    !.reports[i].status = IF @ = "open" THEN "in_review" ELSE @]
       IN /\ state' = st
          /\ UNCHANGED clock
          /\ enqueueWrite(st)
          /\ call' = [op |-> "assignReport", args |-> args,
                      ret |-> Some(st.reports[i]), writes |-> 1]

\* resolveReport that accepts every report status as the target status
resolveReportAnyStatus(reportId, status) ==
  LET i == getReportById(state, reportId)
      args == [reportId |-> reportId, status |-> status]
  IN
  IF i = 0 \/ ~isReportStatus(status)
  THEN /\ call' = [op |-> "resolveReport", args |-> args, ret |-> Null, writes |-> 0]
       /\ UNCHANGED <<state, clock>>
       /\ noWrite
  ELSE \E now \in nowIso :
         LET st == [state EXCEPT !.reports[i].status = status,
                                 !.reports[i].resolved_at = Some(now)]
         IN /\ state' = st
            /\ clock' = now
            /\ enqueueWrite(st)
            /\ call' = [op |-> "resolveReport", args |-> args,
                        ret |-> Some(st.reports[i]), writes |-> 1]

resolveReport(reportId, status) ==
  LET i == getReportById(state, reportId)
      args == [reportId |-> reportId, status |-> status]
  IN
  IF i = 0 \/ status \notin {"resolved", "dismissed"}
  THEN /\ call' = [op |-> "resolveReport", args |-> args, ret |-> Null, writes |-> 0]
       /\ UNCHANGED <<state, clock>>
       /\ noWrite
  ELSE \E now \in nowIso :
         LET st == [state EXCEPT !.reports[i].status = status,
                                 !.reports[i].resolved_at = Some(now)]
         IN /\ state' = st
            /\ clock' = now
            /\ enqueueWrite(st)
            /\ call' = [op |-> "resolveReport", args |-> args,
                        ret |-> Some(st.reports[i]), writes |-> 1]

NextReports ==
  /\ UNCHANGED pc
  /\ \/ /\ state.counters.reports < MaxReports
        /\ \E reporter_user_id \in UserIds, target_type \in ReportTargetArgs :
             createReport(reporter_user_id, target_type, 1, "spam", "")
     \/ \E reportId \in ReportIdArgs, moderatorId \in UserIds :
          assignReport(reportId, moderatorId)
     \/ \E reportId \in ReportIdArgs, status \in ReportStatusArgs :
          resolveReport(reportId, status)

SpecReports == Init /\ [][NextReports]_vars

\* C7: every change of a report's status is open -> in_review,
\* in_review -> resolved or in_review -> dismissed.
C7_StatusOnlyAdvances ==
  [][ \A i \in 1..Len(state.reports) :
        state'.reports[i].status # state.reports[i].status
          => <<state.reports[i].status, state'.reports[i].status>>
               \in { <<"open", "in_review">>,
                     <<"in_review", "resolved">>,
                     <<"in_review", "dismissed">> } ]_vars

\* C8: resolveReport of an existing report with target status resolved or
\* dismissed sets the status and a non-null resolved_at; any other call
\* returns null and changes neither the state nor the write queue nor the file.
C8_ResolveAcceptsOnlyFinalStatuses ==
  [][ call'.op = "resolveReport"
      => LET i == getReportById(state, call'.args.reportId) IN
         IF i # 0 /\ call'.args.status \in {"resolved", "dismissed"}
         THEN /\ state'.reports[i].status = call'.args.status
              /\ state'.reports[i].resolved_at # Null
              /\ call'.ret = Some(state'.reports[i])
         ELSE /\ call'.ret = Null
              /\ call'.writes = 0
              /\ UNCHANGED <<state, writeQueue, isWriting, disk>> ]_vars

\* one report has been resolved and stamped, and the last call, which asked
\* for the status in_review on an existing report, was refused
C8_Witness ==
  /\ call.op = "resolveReport"
  /\ call.ret = Null
  /\ call.args.status = "in_review"
  /\ getReportById(state, call.args.reportId) # 0
  /\ \E i \in 1..Len(state.reports) :
       /\ state.reports[i].status = "resolved"
       /\ state.reports[i].resolved_at # Null

----------------------------------------------------------------------------
(* Likes and bookmarks. *)

\* findLike that compares the row's post_id with the user id
findLikeWrongField(st, userId, postId) ==
  firstIndex({j \in 1..Len(st.likes) :
                st.likes[j].user_id = userId /\ st.likes[j].post_id = userId})

\* index in state.likes of the row toggleLike finds for the pair, 0 for none
findLike(st, userId, postId) ==
  firstIndex({j \in 1..Len(st.likes) :
                st.likes[j].user_id = userId /\ st.likes[j].post_id = postId})

toggleLike(userId, postId) ==
  LET existing == findLike(state, userId, postId)
      args == [userId |-> userId, postId |-> postId]
  IN
  IF existing # 0
  THEN LET st == [state EXCEPT
                    !.likes = SelectSeq(@, LAMBDA like :
                                             like.id # state.likes[existing].id)]
       IN /\ state' = st
          /\ UNCHANGED clock
          /\ enqueueWrite(st)
          /\ call' = [op |-> "toggleLike", args |-> args, ret |-> Some(FALSE),
                      writes |-> 1]
  ELSE \E now \in nowIso :
         LET id == nextId(state, "likes")
             st == [state EXCEPT
                      !.counters.likes = id,
                      !.likes = Append(@, [ id |-> id, user_id |-> userId,
                                            post_id |-> postId, created_at |-> now ])]
         IN /\ state' = st
            /\ clock' = now
            /\ enqueueWrite(st)
            /\ call' = [op |-> "toggleLike", args |-> args, ret |-> Some(TRUE),
                        writes |-> 1]

\* findBookmark that does not compare the post
findBookmarkAnyPost(st, userId, postId) ==
  firstIndex({j \in 1..Len(st.bookmarks) : st.bookmarks[j].user_id = userId})

\* index in state.bookmarks of the row toggleBookmark finds for the pair
findBookmark(st, userId, postId) ==
  firstIndex({j \in 1..Len(st.bookmarks) :
                st.bookmarks[j].user_id = userId /\ st.bookmarks[j].post_id = postId})

toggleBookmark(userId, postId) ==
  LET existing == findBookmark(state, userId, postId)
      args == [userId |-> userId, postId |-> postId]
  IN
  IF existing # 0
  THEN LET st == [state EXCEPT
                    !.bookmarks = SelectSeq(@, LAMBDA bookmark :
                                    bookmark.id # state.bookmarks[existing].id)]
       IN /\ state' = st
          /\ UNCHANGED clock
          /\ enqueueWrite(st)
          /\ call' = [op |-> "toggleBookmark", args |-> args, ret |-> Some(FALSE),
                      writes |-> 1]
  ELSE \E now \in nowIso :
         LET id == nextId(state, "bookmarks")
             st == [state EXCEPT
                      !.counters.bookmarks = id,
                      !.bookmarks = Append(@, [ id |-> id, user_id |-> userId,
                                                post_id |-> postId,
                                                created_at |-> now ])]
         IN /\ state' = st
            /\ clock' = now
            /\ enqueueWrite(st)
            /\ call' = [op |-> "toggleBookmark", args |-> args, ret |-> Some(TRUE),
                        writes |-> 1]

NextLikes ==
  /\ UNCHANGED pc
  /\ \/ \E userId \in UserIds, postId \in PostIds :
          /\ findLike(state, userId, postId) # 0 \/ state.counters.likes < MaxLikes
          /\ toggleLike(userId, postId)
     \/ \E userId \in UserIds, postId \in PostIds :
          /\ \/ findBookmark(state, userId, postId) # 0
             \/ state.counters.bookmarks < MaxBookmarks
          /\ toggleBookmark(userId, postId)

SpecLikes == Init /\ [][NextLikes]_vars

\* no two rows of the collection are for the same (user_id, post_id) pair
onePerPair(rows) ==
  \A i, j \in 1..Len(rows) :
    (rows[i].user_id = rows[j].user_id /\ rows[i].post_id = rows[j].post_id)
      => i = j

\* C9: likes and bookmarks each hold at most one row per (user_id, post_id).
C9_OneRowPerUserAndPost ==
  onePerPair(state.likes) /\ onePerPair(state.bookmarks)

\* a like was taken back and given again next to another like, and a
\* bookmark was set after one was taken back
C9_Witness ==
  /\ Len(state.likes) = 2
  /\ state.counters.likes = 3
  /\ Len(state.bookmarks) = 1
  /\ state.counters.bookmarks = 2

----------------------------------------------------------------------------
(* Comment reactions. *)

\* the reaction types toggleCommentReaction may be given: the four
\* reactions, and one that is none of them
ReactionArgs == REACTIONS \cup {"wow"}
ReactionCommentArgs == 1..2

\* findReaction that does not compare the reaction type
findReactionAnyType(st, commentId, userId, reactionType) ==
  firstIndex({j \in 1..Len(st.comment_reactions) :
                /\ st.comment_reactions[j].comment_id = commentId
                /\ st.comment_reactions[j].user_id = userId})

\* index in state.comment_reactions of the row toggleCommentReaction finds
findReaction(st, commentId, userId, reactionType) ==
  firstIndex({j \in 1..Len(st.comment_reactions) :
                /\ st.comment_reactions[j].comment_id = commentId
                /\ st.comment_reactions[j].user_id = userId
                /\ st.comment_reactions[j].reaction_type = reactionType})

toggleCommentReaction(userId, commentId, reactionType) ==
  LET existing == findReaction(state, commentId, userId, reactionType)
      args == [userId |-> userId, commentId |-> commentId,
               reactionType |-> reactionType]
  IN
  IF ~isReaction(reactionType)
  THEN /\ call' = [op |-> "toggleCommentReaction", args |-> args, ret |-> Null,
                   writes |-> 0]
       /\ UNCHANGED <<state, clock>>
       /\ noWrite
  ELSE IF existing # 0
  THEN LET st == [state EXCEPT
                    !.comment_reactions = SelectSeq(@, LAMBDA item :
                        item.id # state.comment_reactions[existing].id)]
       IN /\ state' = st
          /\ UNCHANGED clock
          /\ enqueueWrite(st)
          /\ call' = [op |-> "toggleCommentReaction", args |-> args,
                      ret |-> Some(FALSE), writes |-> 1]
  ELSE \E now \in nowIso :
         LET id == nextId(state, "comment_reactions")
             st == [state EXCEPT
                      !.counters.comment_reactions = id,
                      !.comment_reactions =
                         Append(@, [ id |-> id, comment_id |-> commentId,
                                     user_id |-> userId,
                                     reaction_type |-> reactionType,
                                     created_at |-> now ])]
         IN /\ state' = st
            /\ clock' = now
            /\ enqueueWrite(st)
            /\ call' = [op |-> "toggleCommentReaction", args |-> args,
                        ret |-> Some(TRUE), writes |-> 1]

NextReactions ==
  /\ UNCHANGED pc
  /\ \E userId \in UserIds, commentId \in ReactionCommentArgs,
        reactionType \in ReactionArgs :
       /\ \/ ~isReaction(reactionType)
          \/ findReaction(state, commentId, userId, reactionType) # 0
          \/ state.counters.comment_reactions < MaxReactions
       /\ toggleCommentReaction(userId, commentId, reactionType)

SpecReactions == Init /\ [][NextReactions]_vars

\* the rows a user holds on a comment with a type other than the given one
otherTypeRows(st, userId, commentId, reactionType) ==
  { st.comment_reactions[i] :
      i \in { j \in 1..Len(st.comment_reactions) :
                /\ st.comment_reactions[j].user_id = userId
                /\ st.comment_reactions[j].comment_id = commentId
                /\ st.comment_reactions[j].reaction_type # reactionType } }

\* C10: comment_reactions holds at most one row per (user, comment, type);
\* a toggle of one type leaves the same user's rows of the other types on
\* that comment as they are; a toggle with a type that is no reaction
\* returns null and changes nothing.
C10_OneRowPerTypeAndTypesIndependent ==
  /\ [] ( \A i, j \in 1..Len(state.comment_reactions) :
            ( /\ state.comment_reactions[i].user_id = state.comment_reactions[j].user_id
              /\ state.comment_reactions[i].comment_id
                   = state.comment_reactions[j].comment_id
              /\ state.comment_reactions[i].reaction_type
                   = state.comment_reactions[j].reaction_type )
            => i = j )
  /\ [][ call'.op = "toggleCommentReaction"
         => IF call'.args.reactionType \in {"like", "heart", "fire", "clap"}
            THEN otherTypeRows(state', call'.args.userId, call'.args.commentId,
                               call'.args.reactionType)
                   = otherTypeRows(state, call'.args.userId, call'.args.commentId,
                                   call'.args.reactionType)
            ELSE /\ call'.ret = Null
                 /\ call'.writes = 0
                 /\ UNCHANGED <<state, writeQueue, isWriting, disk>> ]_vars

\* a user holds two reaction types on one comment, one of them given again
\* after it was taken back, and the last call named a type that is no reaction
C10_Witness ==
  /\ call.op = "toggleCommentReaction"
  /\ call.ret = Null
  /\ state.counters.comment_reactions = 3
  /\ \E i, j \in 1..Len(state.comment_reactions) :
       /\ state.comment_reactions[i].user_id = state.comment_reactions[j].user_id
       /\ state.comment_reactions[i].comment_id = state.comment_reactions[j].comment_id
       /\ state.comment_reactions[i].reaction_type
            # state.comment_reactions[j].reaction_type
       /\ Len(state.comment_reactions) = 2

----------------------------------------------------------------------------
(* Every operation together. *)

----------------------------------------------------------------------------
(* Users. *)

\* the names and addresses createUser may be given, as character codes:
\* "An" and " b", and "A@x"
UsernameArgs == {<<65, 110>>, <<32, 98>>}
EmailArgs == {<<65, 64, 120>>}
UserIdArgs == 1..(MaxUsers + 1)
RoleArgs == ROLES \cup {"owner"}
UserStatusArgs == USER_STATUS \cup {"muted"}

\* index in state.users of the user getUserById finds, 0 for none
getUserById(st, id) ==
  firstIndex({j \in 1..Len(st.users) : st.users[j].id = id})

\* the role createUser would give if it looked for an admin among the users
roleByMissingAdmin(users) ==
  IF \A i \in 1..Len(users) : users[i].role # "admin" THEN "admin" ELSE "user"

\* the role createUser gives: admin to the first user of the collection
roleByUserCount(users) == IF Len(users) = 0 THEN "admin" ELSE "user"

createUser(username, email, password_hash) ==
  \E now \in nowIso :
    LET id == nextId(state, "users")
        user == [ id |-> id,
                  username |-> trim(username),
                  email |-> normalizeText(email),
                  password_hash |-> password_hash,
                  bio |-> "",
                  avatar_url |-> "",
                  created_at |-> now,
                  role |-> roleByUserCount(state.users),
                  status |-> "active",
                  email_verified |-> FALSE,
                  verification_token_hash |-> Null,
                  verification_expires_at |-> Null,
                  reset_token_hash |-> Null,
                  reset_expires_at |-> Null ]
        st == [state EXCEPT !.counters.users = id, !.users = Append(@, user)]
    IN /\ state' = st
       /\ clock' = now
       /\ enqueueWrite(st)
       /\ call' = [op |-> "createUser",
                   args |-> [username |-> username, email |-> email],
                   ret |-> Some(user), writes |-> 1]

updateUserRole(id, role) ==
  LET i == getUserById(state, id)
      args == [id |-> id, role |-> role]
  IN
  IF i = 0 \/ ~isRole(role)
  THEN /\ call' = [op |-> "updateUserRole", args |-> args, ret |-> Null,
                   writes |-> 0]
       /\ UNCHANGED <<state, clock>>
       /\ noWrite
  ELSE LET st == [state EXCEPT !.users[i].role = role] IN
       /\ state' = st
       /\ UNCHANGED clock
       /\ enqueueWrite(st)
       /\ call' = [op |-> "updateUserRole", args |-> args,
                   ret |-> Some(st.users[i]), writes |-> 1]

updateUserStatus(id, status) ==
  LET i == getUserById(state, id)
      args == [id |-> id, status |-> status]
  IN
  IF i = 0 \/ ~isUserStatus(status)
  THEN /\ call' = [op |-> "updateUserStatus", args |-> args, ret |-> Null,
                   writes |-> 0]
       /\ UNCHANGED <<state, clock>>
       /\ noWrite
  ELSE LET st == [state EXCEPT !.users[i].status = status] IN
       /\ state' = st
       /\ UNCHANGED clock
       /\ enqueueWrite(st)
       /\ call' = [op |-> "updateUserStatus", args |-> args,
                   ret |-> Some(st.users[i]), writes |-> 1]

NextUsers ==
  /\ UNCHANGED pc
  /\ \/ /\ state.counters.users < MaxUsers
        /\ \E username \in UsernameArgs, email \in EmailArgs :
             createUser(username, email, "hash")
     \/ \E id \in UserIdArgs, role \in RoleArgs : updateUserRole(id, role)
     \/ \E id \in UserIdArgs, status \in UserStatusArgs :
          updateUserStatus(id, status)

SpecUsers == Init /\ [][NextUsers]_vars

\* C14: createUser gives the role admin exactly when the users collection is
\* empty at the call, the role user otherwise, with status active and the
\* email unverified; from the empty store the user with the first id, and
\* no later one, is created as admin
C14_FirstUserIsAdmin ==
  [][ call'.op = "createUser" =>
        LET user == call'.ret[1] IN
        /\ user.role = (IF Len(state.users) = 0 THEN "admin" ELSE "user")
        /\ (user.role = "admin") <=> (user.id = 1)
        /\ user.status = "active"
        /\ user.email_verified = FALSE
        /\ state'.users = Append(state.users, user) ]_vars

\* a user was created as a plain user while no user held the admin role
C14_Witness ==
  /\ call.op = "createUser"
  /\ call.ret[1].role = "user"
  /\ state.users[Len(state.users)] = call.ret[1]
  /\ \A i \in 1..Len(state.users) : state.users[i].role # "admin"

----------------------------------------------------------------------------
(* Tags and posts. *)

\* the tag lists createPost may be given, as character codes: none, "c",
\* "C " with "c+" (one slug), "+" (no slug) with "d"
TagNameArgs == { <<>>, << <<99>> >>, << <<67, 32>>, <<99, 43>> >>,
                 << <<43>>, <<100>> >> }
\* the titles createPost may be given: " Reel"
TitleArgs == { <<32, 82, 101, 101, 108>> }
MediaTypeArgs == {"none", "gif"}
MEDIA_TYPES == {"none", "image", "video"}
PostIdArgs == 1..(MaxPosts + 1)

\* getTagBySlug that finds no tag
getTagBySlugNone(st, slug) == 0

\* index in st.tags of the tag with the slug, 0 for none
getTagBySlug(st, slug) ==
  firstIndex({j \in 1..Len(st.tags) : st.tags[j].slug = slug})

\* the slug the loop of getOrCreateTag ends with, entered with this index
RECURSIVE freeSlug(_, _, _)
freeSlug(st, slugBase, index) ==
  LET slug == IF index = 1 THEN slugBase
              ELSE slugBase \o <<CharHyphen>> \o DecimalString(index)
  IN IF getTagBySlug(st, slug) # 0 THEN freeSlug(st, slugBase, index + 1)
     ELSE slug

\* getOrCreateTag(nameInput) in state st at time now: the state it leaves
\* and the tag it returns
getOrCreateTag(st, nameInput, now) ==
  LET name == trim(nameInput)
      slugBase == slugify(name)
      existing == getTagBySlug(st, slugBase)
      id == nextId(st, "tags")
      tag == [ id |-> id, slug |-> freeSlug(st, slugBase, 1), name |-> name,
               created_at |-> now ]
  IN IF name = <<>> \/ slugBase = <<>> THEN [st |-> st, tag |-> Null]
     ELSE IF existing # 0 THEN [st |-> st, tag |-> Some(st.tags[existing])]
     ELSE [ st |-> [st EXCEPT !.counters.tags = id, !.tags = Append(@, tag)],
            tag |-> Some(tag) ]

\* uniqueNames without the limit of five
uniqueNamesAll(tagNames) ==
  LET F[i \in 0..Len(tagNames)] ==
        IF i = 0 THEN <<>>
        ELSE LET normalized == toLowerCase(trim(tagNames[i]))
                 seen == {F[i - 1][k] : k \in 1..Len(F[i - 1])}
             IN IF normalized = <<>> \/ normalized \in seen THEN F[i - 1]
                ELSE Append(F[i - 1], normalized)
  IN F[Len(tagNames)]

\* the names setPostTags keeps: trimmed, lower case, non-empty, each once,
\* in order, at most five
uniqueNames(tagNames) ==
  LET F[i \in 0..Len(tagNames)] ==
        IF i = 0 THEN <<>>
        ELSE LET normalized == toLowerCase(trim(tagNames[i]))
                 seen == {F[i - 1][k] : k \in 1..Len(F[i - 1])}
             IN IF Len(F[i - 1]) >= MaxTagNames THEN F[i - 1]
                ELSE IF normalized = <<>> \/ normalized \in seen THEN F[i - 1]
                ELSE Append(F[i - 1], normalized)
  IN F[Len(tagNames)]

\* the state setPostTags(postId, tagNames) leaves, tags stamped with now
setPostTags(st, postId, tagNames, now) ==
  LET names == uniqueNames(tagNames)
      cleared == [st EXCEPT
                    !.post_tags = SelectSeq(@, LAMBDA item : item.post_id # postId)]
      F[i \in 0..Len(names)] ==
        IF i = 0 THEN cleared
        ELSE LET r == getOrCreateTag(F[i - 1], names[i], now) IN
             IF r.tag = Null THEN r.st
             ELSE [r.st EXCEPT
                     !.post_tags = Append(@, [ post_id |-> postId,
                                               tag_id |-> r.tag[1].id ])]
  IN F[Len(names)]

\* index in st.posts of the post getPostRawById finds, 0 for none
getPostRawById(st, postId) ==
  firstIndex({j \in 1..Len(st.posts) : st.posts[j].id = postId})

\* createPost as the route POST /posts calls it: with an excerpt and a
\* reading time.  The clock is read for the post, for the tags the call
\* creates, and for the search index
createPost(user_id, category_id, title, media_type, tag_names) ==
  \E now \in nowIso :
  \E tagged \in {t \in {now, now + 1} : t <= MaxTime} :
  \E rebuilt \in {t \in {tagged, tagged + 1} : t <= MaxTime} :
    LET id == nextId(state, "posts")
        post == [ id |-> id,
                  user_id |-> user_id,
                  category_id |-> category_id,
                  title |-> trim(title),
                  markdown_body |-> "text",
                  rendered_html |-> "<p>text</p>",
                  excerpt |-> "text",
                  reading_time_minutes |-> 1,
                  media_url |-> "",
                  media_type |-> IF media_type \in MEDIA_TYPES THEN media_type
                                 ELSE "none",
                  is_hidden |-> FALSE,
                  hidden_reason |-> "",
                  created_at |-> now ]
        pushed == [state EXCEPT !.counters.posts = id, !.posts = Append(@, post)]
        st == [setPostTags(pushed, id, tag_names, tagged) EXCEPT
                 !.search_index_meta.last_rebuild_at = Some(rebuilt)]
    IN /\ state' = st
       /\ clock' = rebuilt
       /\ enqueueWrite(st)
       /\ call' = [op |-> "createPost", args |-> [tag_names |-> tag_names],
                   ret |-> Some(post), writes |-> 1]

\* setPostHidden that falls back to the first post when the id has none
setPostHiddenOrFirst(op, postId, hidden, reason) ==
  LET found == getPostRawById(state, postId)
      i == IF found = 0 /\ Len(state.posts) > 0 THEN 1 ELSE found
      args == [postId |-> postId]
  IN
  IF i = 0
  THEN /\ call' = [op |-> op, args |-> args, ret |-> Null, writes |-> 0]
       /\ UNCHANGED <<state, clock>>
       /\ noWrite
  ELSE LET st == [state EXCEPT !.posts[i].is_hidden = hidden,
                               !.posts[i].hidden_reason = reason]
       IN /\ state' = st
          /\ UNCHANGED clock
          /\ enqueueWrite(st)
          /\ call' = [op |-> op, args |-> args, ret |-> Some(st.posts[i]),
                      writes |-> 1]

setPostHidden(op, postId, hidden, reason) ==
  LET i == getPostRawById(state, postId)
      args == [postId |-> postId]
  IN
  IF i = 0
  THEN /\ call' = [op |-> op, args |-> args, ret |-> Null, writes |-> 0]
       /\ UNCHANGED <<state, clock>>
       /\ noWrite
  ELSE LET st == [state EXCEPT !.posts[i].is_hidden = hidden,
                               !.posts[i].hidden_reason = reason]
       IN /\ state' = st
          /\ UNCHANGED clock
          /\ enqueueWrite(st)
          /\ call' = [op |-> op, args |-> args, ret |-> Some(st.posts[i]),
                      writes |-> 1]

hidePost(postId, reason) == setPostHidden("hidePost", postId, TRUE, reason)

unhidePost(postId) == setPostHidden("unhidePost", postId, FALSE, "")

NextPosts ==
  /\ UNCHANGED pc
  /\ \/ /\ state.counters.posts < MaxPosts
        /\ \E user_id \in UserIds, title \in TitleArgs,
              media_type \in MediaTypeArgs, tag_names \in TagNameArgs :
             createPost(user_id, 1, title, media_type, tag_names)
     \/ \E postId \in PostIdArgs, reason \in Reasons : hidePost(postId, reason)
     \/ \E postId \in PostIdArgs : unhidePost(postId)

SpecPosts == Init /\ [][NextPosts]_vars

----------------------------------------------------------------------------
(* Moderation: the audit log and the routes that write it (server.js). *)

\* String(value || fallback) for a string
stringOr(value, fallback) == IF value = "" THEN fallback ELSE value

\* addModerationAction that keeps the newest entry first
addModerationActionFirst(payload) ==
  \E now \in nowIso :
    LET id == nextId(state, "moderation_actions")
        action == [ id |-> id,
                    actor_user_id |-> payload.actor_user_id,
                    action_type |-> stringOr(payload.action_type, "unknown"),
                    target_type |-> stringOr(payload.target_type, "unknown"),
                    target_id |-> payload.target_id,
                    notes |-> payload.notes,
                    created_at |-> now ]
        st == [state EXCEPT !.counters.moderation_actions = id,
                            !.moderation_actions = <<action>> \o @]
    IN /\ state' = st
       /\ clock' = now
       /\ enqueueWrite(st)
       /\ call' = [op |-> "addModerationAction", args |-> payload,
                   ret |-> Some(action), writes |-> 1]

addModerationAction(payload) ==
  \E now \in nowIso :
    LET id == nextId(state, "moderation_actions")
        action == [ id |-> id,
                    actor_user_id |-> payload.actor_user_id,
                    action_type |-> stringOr(payload.action_type, "unknown"),
                    target_type |-> stringOr(payload.target_type, "unknown"),
                    target_id |-> payload.target_id,
                    notes |-> payload.notes,
                    created_at |-> now ]
        st == [state EXCEPT !.counters.moderation_actions = id,
                            !.moderation_actions = Append(@, action)]
    IN /\ state' = st
       /\ clock' = now
       /\ enqueueWrite(st)
       /\ call' = [op |-> "addModerationAction", args |-> payload,
                   ret |-> Some(action), writes |-> 1]

toPublicUser(user) ==
  [ id |-> user.id, username |-> user.username, email |-> user.email,
    bio |-> user.bio, avatar_url |-> user.avatar_url,
    created_at |-> user.created_at,
    role |-> stringOr(user.role, "user"),
    status |-> stringOr(user.status, "active"),
    email_verified |-> user.email_verified ]

\* req.currentUser for a session of the user id: the public view of the
\* user, null for no such user and for a user who is not active
currentUser(st, sessionUserId) ==
  LET i == getUserById(st, sessionUserId) IN
  IF i = 0 THEN Null
  ELSE IF toPublicUser(st.users[i]).status # "active" THEN Null
  ELSE Some(toPublicUser(st.users[i]))

isAdminRole(role) == role = "admin"
canUserModerate(user) == user # Null /\ isModeratorRole(user[1].role)
canUserAdmin(user) == user # Null /\ isAdminRole(user[1].role)

\* the action type `report.${status}` and the note `Role set to ${role}`
reportActionType(status) ==
  CASE status = "resolved" -> "report.resolved"
    [] status = "dismissed" -> "report.dismissed"
    [] status = "open" -> "report.open"
    [] status = "in_review" -> "report.in_review"
    [] OTHER -> "report.closed"
roleNote(role) ==
  CASE role = "admin" -> "Role set to admin"
    [] role = "moderator" -> "Role set to moderator"
    [] OTHER -> "Role set to user"

\* the route ends before it calls the store
routeRejects(outcome) ==
  /\ pc' = [at |-> "idle", audit |-> Null, outcome |-> outcome]
  /\ UNCHANGED <<state, clock, call>>
  /\ noWrite

\* routeGoesOn that never tests the result of the store call
routeGoesOnUntested(testsResult, payload) ==
  pc' = IF proc'.threw \/ proc'.at = "dead"
        THEN [at |-> "idle", audit |-> Null, outcome |-> "error"]
        ELSE [at |-> "audit", audit |-> Some(payload), outcome |-> ""]

\* the handler position after the route's store call, which is primed in
\* the same step: the route ends when the call threw or, if the route
\* tests the result, returned null; else it goes on to log the payload
routeGoesOn(testsResult, payload) ==
  pc' = IF proc'.threw \/ proc'.at = "dead"
        THEN [at |-> "idle", audit |-> Null, outcome |-> "error"]
        ELSE IF testsResult /\ call'.ret = Null
        THEN [at |-> "idle", audit |-> Null, outcome |-> "rejected"]
        ELSE [at |-> "audit", audit |-> Some(payload), outcome |-> ""]

auditPayload(sessionUserId, action_type, target_type, target_id, notes) ==
  [ actor_user_id |-> sessionUserId, action_type |-> action_type,
    target_type |-> target_type, target_id |-> target_id, notes |-> notes ]

\* POST /moderation/reports/:id/assign
routeAssignReport(sessionUserId, reportId) ==
  /\ pc.at = "idle"
  /\ IF ~canUserModerate(currentUser(state, sessionUserId))
     THEN routeRejects("forbidden")
     ELSE /\ assignReport(reportId, sessionUserId)
          /\ routeGoesOn(TRUE,
                auditPayload(sessionUserId, "report.assign", "report",
                             reportId, "Assigned to moderator"))

\* POST /moderation/reports/:id/resolve
routeResolveReport(sessionUserId, reportId, status, notes) ==
  /\ pc.at = "idle"
  /\ IF ~canUserModerate(currentUser(state, sessionUserId))
     THEN routeRejects("forbidden")
     ELSE /\ resolveReport(reportId, status)
          /\ routeGoesOn(TRUE,
                auditPayload(sessionUserId, reportActionType(status),
                             "report", reportId, notes))

\* POST /moderation/posts/:id/hide
routeHidePost(sessionUserId, postId, reason) ==
  /\ pc.at = "idle"
  /\ IF ~canUserModerate(currentUser(state, sessionUserId))
     THEN routeRejects("forbidden")
     ELSE /\ hidePost(postId, reason)
          /\ routeGoesOn(TRUE,
                auditPayload(sessionUserId, "post.hide", "post", postId,
                             reason))

\* POST /moderation/posts/:id/unhide
routeUnhidePost(sessionUserId, postId) ==
  /\ pc.at = "idle"
  /\ IF ~canUserModerate(currentUser(state, sessionUserId))
     THEN routeRejects("forbidden")
     ELSE /\ unhidePost(postId)
          /\ routeGoesOn(TRUE,
                auditPayload(sessionUserId, "post.unhide", "post", postId, ""))

\* POST /moderation/comments/:id/hide
routeHideComment(sessionUserId, commentId, reason) ==
  /\ pc.at = "idle"
  /\ IF ~canUserModerate(currentUser(state, sessionUserId))
     THEN routeRejects("forbidden")
     ELSE /\ hideComment(commentId, reason)
          /\ routeGoesOn(TRUE,
                auditPayload(sessionUserId, "comment.hide", "comment",
                             commentId, reason))

\* POST /moderation/comments/:id/unhide
routeUnhideComment(sessionUserId, commentId) ==
  /\ pc.at = "idle"
  /\ IF ~canUserModerate(currentUser(state, sessionUserId))
     THEN routeRejects("forbidden")
     ELSE /\ unhideComment(commentId)
          /\ routeGoesOn(TRUE,
                auditPayload(sessionUserId, "comment.unhide", "comment",
                             commentId, ""))

\* POST /moderation/users/:id/suspend and POST /moderation/users/:id/ban
routeSetUserStatus(sessionUserId, userId, status, action_type) ==
  LET actor == currentUser(state, sessionUserId)
      target == getUserById(state, userId)
  IN
  /\ pc.at = "idle"
  /\ IF ~canUserModerate(actor)
     THEN routeRejects("forbidden")
     ELSE IF target = 0
     THEN routeRejects("rejected")
     ELSE IF state.users[target].role = "admin" /\ ~canUserAdmin(actor)
     THEN routeRejects("rejected")
     ELSE /\ updateUserStatus(userId, status)
          /\ routeGoesOn(FALSE,
                auditPayload(sessionUserId, action_type, "user", userId, ""))

routeSuspendUser(sessionUserId, userId) ==
  routeSetUserStatus(sessionUserId, userId, "suspended", "user.suspend")

routeBanUser(sessionUserId, userId) ==
  routeSetUserStatus(sessionUserId, userId, "banned", "user.ban")

\* the route without the test that keeps admins from demoting themselves
routeSetUserRoleOfAnyone(sessionUserId, userId, role) ==
  LET actor == currentUser(state, sessionUserId)
      target == getUserById(state, userId)
  IN
  /\ pc.at = "idle"
  /\ IF ~canUserAdmin(actor)
     THEN routeRejects("forbidden")
     ELSE IF role \notin ROLES
     THEN routeRejects("rejected")
     ELSE IF target = 0
     THEN routeRejects("rejected")
     ELSE /\ updateUserRole(userId, role)
          /\ routeGoesOn(FALSE,
                auditPayload(sessionUserId, "user.role.update", "user",
                             userId, roleNote(role)))

\* POST /admin/users/:id/role
routeSetUserRole(sessionUserId, userId, role) ==
  LET actor == currentUser(state, sessionUserId)
      target == getUserById(state, userId)
  IN
  /\ pc.at = "idle"
  /\ IF ~canUserAdmin(actor)
     THEN routeRejects("forbidden")
     ELSE IF role \notin ROLES
     THEN routeRejects("rejected")
     ELSE IF target = 0
     THEN routeRejects("rejected")
     ELSE IF state.users[target].id = actor[1].id /\ role # "admin"
     THEN routeRejects("rejected")
     ELSE /\ updateUserRole(userId, role)
          /\ routeGoesOn(FALSE,
                auditPayload(sessionUserId, "user.role.update", "user",
                             userId, roleNote(role)))

\* the second store call of a moderation route
routeAudit ==
  /\ pc.at = "audit"
  /\ addModerationAction(pc.audit[1])
  /\ pc' = [pc EXCEPT !.at = "idle", !.audit = Null,
                      !.outcome = IF proc'.threw \/ proc'.at = "dead"
                                  THEN "error" ELSE "applied"]

\* ids a moderation route may be given: the ids of the users and targets the
\* specification creates, each of which is missing until it is created
ModTargetArgs == 1..MaxModTargets
\* the statuses and roles a moderation route may be given: two that are
\* accepted and one that is refused
ModStatusArgs == {"resolved", "dismissed", "open"}
ModRoleArgs == {"moderator", "user", "owner"}

\* the routes' first steps, open while the audit log has room for the entry
NextModerationRoutes ==
  /\ Len(state.moderation_actions) < MaxActions
  /\ \E sessionUserId \in UserIds :
       \/ \E reportId \in ModTargetArgs :
            routeAssignReport(sessionUserId, reportId)
       \/ \E reportId \in ModTargetArgs, status \in ModStatusArgs :
            routeResolveReport(sessionUserId, reportId, status, "")
       \/ \E postId \in ModTargetArgs, reason \in Reasons :
            routeHidePost(sessionUserId, postId, reason)
       \/ \E postId \in ModTargetArgs : routeUnhidePost(sessionUserId, postId)
       \/ \E commentId \in ModTargetArgs, reason \in Reasons :
            routeHideComment(sessionUserId, commentId, reason)
       \/ \E commentId \in ModTargetArgs :
            routeUnhideComment(sessionUserId, commentId)
       \/ \E userId \in UserIds : routeSuspendUser(sessionUserId, userId)
       \/ \E userId \in UserIds : routeBanUser(sessionUserId, userId)
       \/ \E userId \in UserIds, role \in ModRoleArgs :
            routeSetUserRole(sessionUserId, userId, role)

\* the store calls of the other routes, which give the moderation routes
\* their users and targets
NextModerationTargets ==
  /\ pc.at = "idle"
  /\ UNCHANGED pc
  /\ \/ /\ state.counters.users < MaxUsers
        /\ createUser(<<65, 110>>, <<65, 64, 120>>, "hash")
     \/ /\ state.counters.posts < MaxModTargets
        /\ createPost(1, 1, <<82, 101, 101, 108>>, "none", << <<99>> >>)
     \/ /\ state.counters.comments < MaxModTargets
        /\ addComment(1, 1, "hi", Null)
     \/ /\ state.counters.reports < MaxModTargets
        /\ createReport(1, "post", 1, "spam", "")

NextModeration ==
  \/ NextModerationTargets
  \/ NextModerationRoutes
  \/ routeAudit

SpecModeration == Init /\ [][NextModeration]_vars

\* C15: the audit log only grows at its end: every step leaves the entries
\* it had as they were and where they were
C15_AuditLogAppendOnly ==
  [][ /\ Len(state'.moderation_actions) >= Len(state.moderation_actions)
      /\ SubSeq(state'.moderation_actions, 1, Len(state.moderation_actions))
           = state.moderation_actions ]_vars

\* a second entry was appended behind the first
C15_Witness ==
  /\ call.op = "addModerationAction"
  /\ Len(state.moderation_actions) = 2
  /\ state.moderation_actions[2] = call.ret[1]
  /\ state.moderation_actions[1].id = 1

\* the step changed a row that moderation works on: a post, comment, user
\* or report that existed before it
moderationApplied(old, new) ==
  \E kind \in {"posts", "comments", "users", "reports"} :
    Len(old[kind]) = Len(new[kind]) /\ old[kind] # new[kind]

\* the action type and the target that belong to a store call of moderation
auditOf(c) ==
  CASE c.op = "assignReport" ->
         [type |-> "report.assign", target_type |-> "report",
          target_id |-> c.args.reportId]
    [] c.op = "resolveReport" ->
         [type |-> IF c.args.status = "resolved" THEN "report.resolved"
                   ELSE "report.dismissed",
          target_type |-> "report", target_id |-> c.args.reportId]
    [] c.op = "hidePost" ->
         [type |-> "post.hide", target_type |-> "post",
          target_id |-> c.args.postId]
    [] c.op = "unhidePost" ->
         [type |-> "post.unhide", target_type |-> "post",
          target_id |-> c.args.postId]
    [] c.op = "hideComment" ->
         [type |-> "comment.hide", target_type |-> "comment",
          target_id |-> c.args.commentId]
    [] c.op = "unhideComment" ->
         [type |-> "comment.unhide", target_type |-> "comment",
          target_id |-> c.args.commentId]
    [] c.op = "updateUserStatus" ->
         [type |-> IF c.args.status = "suspended" THEN "user.suspend"
                   ELSE "user.ban",
          target_type |-> "user", target_id |-> c.args.id]
    [] c.op = "updateUserRole" ->
         [type |-> "user.role.update", target_type |-> "user",
          target_id |-> c.args.id]

hasAudit(file, action_type, target_type, target_id) ==
  \E i \in 1..Len(file.moderation_actions) :
    /\ file.moderation_actions[i].action_type = action_type
    /\ file.moderation_actions[i].target_type = target_type
    /\ file.moderation_actions[i].target_id = target_id

\* every moderation mutation the snapshot shows has its audit entry in it
snapshotHasAudits(file) ==
  /\ \A i \in 1..Len(file.reports) :
       /\ file.reports[i].status \in {"resolved", "dismissed"} =>
            hasAudit(file, reportActionType(file.reports[i].status), "report",
                     file.reports[i].id)
       /\ file.reports[i].assigned_to_user_id # Null =>
            hasAudit(file, "report.assign", "report", file.reports[i].id)
  /\ \A i \in 1..Len(file.posts) :
       file.posts[i].is_hidden =>
         hasAudit(file, "post.hide", "post", file.posts[i].id)
  /\ \A i \in 1..Len(file.comments) :
       file.comments[i].is_hidden =>
         hasAudit(file, "comment.hide", "comment", file.comments[i].id)
  /\ \A i \in 1..Len(file.users) :
       /\ file.users[i].status = "suspended" =>
            hasAudit(file, "user.suspend", "user", file.users[i].id)
       /\ file.users[i].status = "banned" =>
            hasAudit(file, "user.ban", "user", file.users[i].id)

\* the snapshot holds the post with a relation to a tag of each slug that
\* the given tag names have
snapshotHasTags(file, post, tag_names) ==
  /\ \E i \in 1..Len(file.posts) : file.posts[i] = post
  /\ \A n \in 1..Len(tag_names) :
       slugify(tag_names[n]) # <<>> =>
         \E t \in 1..Len(file.tags), r \in 1..Len(file.post_tags) :
           /\ file.tags[t].slug = slugify(tag_names[n])
           /\ file.post_tags[r] = [post_id |-> post.id,
                                   tag_id |-> file.tags[t].id]

\* C20: every snapshot handed to the write queue, which is the one the file
\* holds, has the audit entry of every moderation mutation it shows, and
\* the snapshot written by createPost has the post's tag relations
C20_CompoundUpdatesInOneSnapshot ==
  /\ snapshotHasAudits(disk)
  /\ call.op = "createPost" =>
       snapshotHasTags(disk, call.ret[1], call.args.tag_names)

\* the second half of C20 alone
PostWrittenWithItsTags ==
  call.op = "createPost" =>
    snapshotHasTags(disk, call.ret[1], call.args.tag_names)

----------------------------------------------------------------------------
(* Startup: the stored file is read, repaired and numbered. *)

\* A parsed JSON value in a position the code reads through toInt(): an
\* integer, the number n + 1/2, a string, null, or a missing key
JNumber(n) == [t |-> "number", n |-> n]
JFraction(n) == [t |-> "fraction", floor |-> n]
JString(s) == [t |-> "string", s |-> s]
JNull == [t |-> "null"]
JUndefined == [t |-> "undefined"]

\* Number(s) for the strings of the model that are numerals
numerals == ("" :> 0) @@ ("7" :> 7)

\* toInt(value): Number(value) if that is an integer, else 0
toInt(value) ==
  CASE value.t = "number" -> value.n
    [] value.t = "string" /\ value.s \in DOMAIN numerals -> numerals[value.s]
    [] OTHER -> 0

\* value ? ... : ...
isTruthy(value) ==
  CASE value.t = "number" -> value.n # 0
    [] value.t = "fraction" -> TRUE
    [] value.t = "string" -> value.s # ""
    [] OTHER -> FALSE

\* the fields of a stored row that the code reads through toInt()
idFields == {"id", "user_id", "post_id", "category_id", "comment_id",
             "reporter_user_id", "target_id", "actor_user_id", "tag_id"}
nullableIdFields == {"parent_comment_id", "assigned_to_user_id"}

\* JSON.parse of the text JSON.stringify made of a row of the state
parsedRow(row) ==
  [f \in DOMAIN row |->
     IF f \in idFields THEN JNumber(row[f])
     ELSE IF f \in nullableIdFields
     THEN (IF row[f] = Null THEN JNull ELSE JNumber(row[f][1]))
     ELSE row[f]]

\* JSON.parse(raw) for a file that holds a snapshot of the state, or a
\* document that was not written by this code (file.json)
JSONparse(file) ==
  IF "json" \in DOMAIN file THEN file.json
  ELSE [f \in DOMAIN file |->
          IF f = "counters" THEN [k \in Kinds |-> JNumber(file.counters[k])]
          ELSE IF f \in Collections
          THEN [i \in 1..Len(file[f]) |-> parsedRow(file[f][i])]
          ELSE file[f]]

\* sanitizeState(raw) for a parsed object: defaults for the keys that are
\* missing.  A counter is held as the integer toInt() reads from it, which
\* is the only way the code reads a counter (nextId and hydrateCounters)
sanitizeState(raw) ==
  LET rows(f) == IF f \in DOMAIN raw THEN raw[f] ELSE <<>> IN
  [ schema_version |-> IF "schema_version" \in DOMAIN raw
                       THEN raw.schema_version ELSE 1,
    counters |-> [k \in Kinds |->
                    IF "counters" \in DOMAIN raw /\ k \in DOMAIN raw.counters
                    THEN toInt(raw.counters[k]) ELSE baseState.counters[k]],
    users |-> rows("users"), categories |-> rows("categories"),
    posts |-> rows("posts"), likes |-> rows("likes"),
    comments |-> rows("comments"), tags |-> rows("tags"),
    post_tags |-> rows("post_tags"), bookmarks |-> rows("bookmarks"),
    comment_reactions |-> rows("comment_reactions"),
    reports |-> rows("reports"),
    moderation_actions |-> rows("moderation_actions"),
    search_index_meta |->
      IF "search_index_meta" \in DOMAIN raw THEN raw.search_index_meta
      ELSE baseState.search_index_meta ]

\* value || nowIso() for a timestamp, 0 standing for a missing one
createdAt(value, now) == IF value = 0 THEN now ELSE value

\* toInt(value) for a nullable reference: value ? toInt(value) : null
nullableId(value) == IF isTruthy(value) THEN Some(toInt(value)) ELSE Null

migrateUsers(users, now) ==
  LET hasAdmin == \E i \in 1..Len(users) : users[i].role = "admin" IN
  [i \in 1..Len(users) |->
     [users[i] EXCEPT
        !.id = toInt(@),
        !.username = trim(@),
        !.email = normalizeText(@),
        !.created_at = createdAt(@, now),
        !.role = IF ~hasAdmin /\ i = 1 THEN "admin"
                 ELSE IF isRole(@) THEN @ ELSE "user",
        !.status = IF isUserStatus(@) THEN @ ELSE "active"]]

\* a stored category has a name and a slug
migrateCategories(categories) ==
  LET mapped == [i \in 1..Len(categories) |->
                   [ id |-> toInt(categories[i].id),
                     name |-> categories[i].name,
                     slug |-> slugify(categories[i].slug),
                     description |-> categories[i].description,
                     sort_order |-> IF categories[i].sort_order = 0 THEN i
                                    ELSE categories[i].sort_order ]]
  IN pick(mapped, {i \in 1..Len(mapped) :
                        /\ mapped[i].slug # <<>>
                        /\ \A j \in 1..(i - 1) : mapped[j].slug # mapped[i].slug})

\* a stored post has its texts, its excerpt and its reading time
migratePosts(posts, now) ==
  [i \in 1..Len(posts) |->
     [posts[i] EXCEPT
        !.id = toInt(@),
        !.user_id = toInt(@),
        !.category_id = toInt(@),
        !.title = trim(@),
        !.media_type = IF @ \in MEDIA_TYPES THEN @ ELSE "none",
        !.created_at = createdAt(@, now)]]

\* likes and bookmarks
migratePairs(rows, now) ==
  LET mapped == [i \in 1..Len(rows) |->
                   [ id |-> toInt(rows[i].id),
                     user_id |-> toInt(rows[i].user_id),
                     post_id |-> toInt(rows[i].post_id),
                     created_at |-> createdAt(rows[i].created_at, now) ]]
  IN SelectSeq(mapped, LAMBDA row :
                 row.id > 0 /\ row.user_id > 0 /\ row.post_id > 0)

migrateComments(comments, now) ==
  LET first == [i \in 1..Len(comments) |->
                  [comments[i] EXCEPT
                     !.id = toInt(@),
                     !.user_id = toInt(@),
                     !.post_id = toInt(@),
                     !.parent_comment_id = nullableId(@),
                     !.created_at = createdAt(@, now)]]
      commentSeen == {first[i].id : i \in 1..Len(first)}
      orphan(c) == truthy(c.parent_comment_id)
                     /\ c.parent_comment_id[1] \notin commentSeen
      second == [i \in 1..Len(first) |->
                   IF orphan(first[i])
                   THEN [first[i] EXCEPT !.parent_comment_id = Null, !.depth = 0]
                   ELSE first[i]]
  IN [i \in 1..Len(second) |->
        IF second[i].path # <<>> THEN second[i]
        ELSE [second[i] EXCEPT
                !.path = IF truthy(second[i].parent_comment_id)
                         THEN padId(second[i].parent_comment_id[1])
                                \o <<CharDot>> \o padId(second[i].id)
                         ELSE padId(second[i].id)]]

migrateTags(tags, now) ==
  LET mapped == [i \in 1..Len(tags) |->
                   LET name == trim(tags[i].name)
                       slug == slugify(IF tags[i].slug # <<>> THEN tags[i].slug
                                       ELSE name)
                   IN [ id |-> toInt(tags[i].id),
                        name |-> IF name # <<>> THEN name ELSE slug,
                        slug |-> slug,
                        created_at |-> createdAt(tags[i].created_at, now) ]]
      passes(i) == mapped[i].id # 0 /\ mapped[i].slug # <<>>
  IN pick(mapped, {i \in 1..Len(mapped) :
                        /\ passes(i)
                        /\ \A j \in 1..(i - 1) :
                             passes(j) => mapped[j].slug # mapped[i].slug})

migratePostTags(post_tags) ==
  LET mapped == [i \in 1..Len(post_tags) |->
                   [ post_id |-> toInt(post_tags[i].post_id),
                     tag_id |-> toInt(post_tags[i].tag_id) ]]
  IN SelectSeq(mapped, LAMBDA relation :
                 relation.post_id > 0 /\ relation.tag_id > 0)

migrateReactions(comment_reactions, now) ==
  LET mapped == [i \in 1..Len(comment_reactions) |->
                   [ id |-> toInt(comment_reactions[i].id),
                     comment_id |-> toInt(comment_reactions[i].comment_id),
                     user_id |-> toInt(comment_reactions[i].user_id),
                     reaction_type |->
                       IF isReaction(comment_reactions[i].reaction_type)
                       THEN comment_reactions[i].reaction_type ELSE "like",
                     created_at |->
                       createdAt(comment_reactions[i].created_at, now) ]]
  IN SelectSeq(mapped, LAMBDA reaction :
                 reaction.id > 0 /\ reaction.comment_id > 0
                   /\ reaction.user_id > 0)

migrateReports(reports, now) ==
  LET mapped == [i \in 1..Len(reports) |->
                   [ id |-> toInt(reports[i].id),
                     reporter_user_id |-> toInt(reports[i].reporter_user_id),
                     target_type |-> IF reports[i].target_type \in REPORT_TARGETS
                                     THEN reports[i].target_type ELSE "post",
                     target_id |-> toInt(reports[i].target_id),
                     reason_code |-> stringOr(reports[i].reason_code, "other"),
                     reason_text |-> reports[i].reason_text,
                     status |-> IF isReportStatus(reports[i].status)
                                THEN reports[i].status ELSE "open",
                     assigned_to_user_id |->
                       nullableId(reports[i].assigned_to_user_id),
                     created_at |-> createdAt(reports[i].created_at, now),
                     resolved_at |-> reports[i].resolved_at ]]
  IN SelectSeq(mapped, LAMBDA report :
                 report.id > 0 /\ report.reporter_user_id > 0
                   /\ report.target_id > 0)

migrateActions(moderation_actions, now) ==
  LET mapped == [i \in 1..Len(moderation_actions) |->
                   [ id |-> toInt(moderation_actions[i].id),
                     actor_user_id |->
                       toInt(moderation_actions[i].actor_user_id),
                     action_type |->
                       stringOr(moderation_actions[i].action_type, "unknown"),
                     target_type |->
                       stringOr(moderation_actions[i].target_type, "unknown"),
                     target_id |-> toInt(moderation_actions[i].target_id),
                     notes |-> moderation_actions[i].notes,
                     created_at |->
                       createdAt(moderation_actions[i].created_at, now) ]]
  IN SelectSeq(mapped, LAMBDA action :
                 action.id > 0 /\ action.actor_user_id > 0
                   /\ action.target_id > 0)

\* migrateState() reads a property of every element of every collection:
\* on an element that is null that is a TypeError
migrateThrows(st) ==
  \E f \in Collections : \E i \in 1..Len(st[f]) : st[f][i] = JNull

\* migrateState() on the sanitized state st, nowIso() returning now
migrateState(st, now) ==
  [ schema_version |-> baseState.schema_version,
    counters |-> st.counters,
    users |-> migrateUsers(st.users, now),
    categories |-> migrateCategories(st.categories),
    posts |-> migratePosts(st.posts, now),
    likes |-> migratePairs(st.likes, now),
    comments |-> migrateComments(st.comments, now),
    tags |-> migrateTags(st.tags, now),
    post_tags |-> migratePostTags(st.post_tags),
    bookmarks |-> migratePairs(st.bookmarks, now),
    comment_reactions |-> migrateReactions(st.comment_reactions, now),
    reports |-> migrateReports(st.reports, now),
    moderation_actions |-> migrateActions(st.moderation_actions, now),
    search_index_meta |->
      [last_rebuild_at |-> st.search_index_meta.last_rebuild_at] ]

\* maxId(items) for rows whose ids are numbers
maxId(items) ==
  LET ids == {items[i].id : i \in 1..Len(items)} \cup {0}
  IN CHOOSE m \in ids : \A id \in ids : id <= m

\* hydrateCounters that trusts a stored counter that is positive
hydrateCountersTrusting(st) ==
  [st EXCEPT !.counters = [k \in Kinds |->
     IF st.counters[k] > 0 THEN st.counters[k] ELSE maxId(st[k])]]

hydrateCounters(st) ==
  [st EXCEPT !.counters = [k \in Kinds |->
     IF st.counters[k] >= maxId(st[k]) THEN st.counters[k] ELSE maxId(st[k])]]

----------------------------------------------------------------------------
(* The three toggles together. *)

toggleIds == state.counters.likes + state.counters.bookmarks
             + state.counters.comment_reactions

NextToggles ==
  /\ UNCHANGED pc
  /\ \/ \E userId \in UserIds, postId \in PostIds :
          /\ findLike(state, userId, postId) # 0 \/ toggleIds < MaxToggleIds
          /\ toggleLike(userId, postId)
     \/ \E userId \in UserIds, postId \in PostIds :
          /\ findBookmark(state, userId, postId) # 0 \/ toggleIds < MaxToggleIds
          /\ toggleBookmark(userId, postId)
     \/ \E userId \in UserIds, commentId \in ReactionCommentArgs,
           reactionType \in ReactionArgs :
          /\ \/ ~isReaction(reactionType)
             \/ findReaction(state, commentId, userId, reactionType) # 0
             \/ toggleIds < MaxToggleIds
          /\ toggleCommentReaction(userId, commentId, reactionType)

SpecToggles == Init /\ [][NextToggles]_vars

toggleOps == {"toggleLike", "toggleBookmark", "toggleCommentReaction"}

\* the collection a toggle call works on
toggleRows(st, c) ==
  IF c.op = "toggleLike" THEN st.likes
  ELSE IF c.op = "toggleBookmark" THEN st.bookmarks
  ELSE st.comment_reactions

\* the row is the one of the call's actor on the call's target
isToggleRow(c, row) ==
  IF c.op = "toggleCommentReaction"
  THEN /\ row.user_id = c.args.userId
       /\ row.comment_id = c.args.commentId
       /\ row.reaction_type = c.args.reactionType
  ELSE row.user_id = c.args.userId /\ row.post_id = c.args.postId

holdsToggleRow(st, c) ==
  \E i \in 1..Len(toggleRows(st, c)) : isToggleRow(c, toggleRows(st, c)[i])

\* every row of the three collections but the actor's on the target
rowsOfOthers(st, c) ==
  [ likes |-> IF c.op = "toggleLike"
              THEN SelectSeq(st.likes, LAMBDA row : ~isToggleRow(c, row))
              ELSE st.likes,
    bookmarks |-> IF c.op = "toggleBookmark"
                  THEN SelectSeq(st.bookmarks, LAMBDA row : ~isToggleRow(c, row))
                  ELSE st.bookmarks,
    comment_reactions |->
      IF c.op = "toggleCommentReaction"
      THEN SelectSeq(st.comment_reactions, LAMBDA row : ~isToggleRow(c, row))
      ELSE st.comment_reactions ]

\* C11: a toggle (like, bookmark, comment reaction) by an actor who holds no
\* row on the target returns true and creates the row; the same toggle made
\* next returns false and leaves the actor without a row on the target; and
\* every toggle leaves the rows of other actors and targets as they were
C11_DoubleToggleRestoresAbsence ==
  [][ (call'.op \in toggleOps /\ call'.ret # Null) =>
        /\ rowsOfOthers(state', call') = rowsOfOthers(state, call')
        /\ ~holdsToggleRow(state, call') =>
              call'.ret = Some(TRUE) /\ holdsToggleRow(state', call')
        /\ (call.op = call'.op /\ call.args = call'.args
              /\ call.ret = Some(TRUE)) =>
              call'.ret = Some(FALSE) /\ ~holdsToggleRow(state', call') ]_vars

\* a bookmark was toggled on and off again while another bookmark row
\* stayed in place
C11_Witness ==
  /\ call.op = "toggleBookmark"
  /\ call.ret = Some(FALSE)
  /\ ~holdsToggleRow(state, call)
  /\ state.counters.bookmarks = 2
  /\ Len(state.bookmarks) = 1

idSet(rows) == {rows[i].id : i \in 1..Len(rows)}

\* C12: for every entity kind, no step decreases the counter, and the id of
\* every row a step adds is at least 1, is the new counter value, and is
\* greater than the counter before the step, hence greater than every id
\* handed out before for the kind, whether or not its row still exists
C12_IdsFreshAndIncreasing ==
  /\ [](\A k \in Kinds : \A id \in idSet(state[k]) :
          1 <= id /\ id <= state.counters[k])
  /\ [][ \A k \in Kinds :
           /\ state'.counters[k] >= state.counters[k]
           /\ \A id \in idSet(state'[k]) \ idSet(state[k]) :
                /\ id >= 1
                /\ id > state.counters[k]
                /\ id = state'.counters[k] ]_vars

\* a like that was toggled off and on again holds the second id
C12_Witness ==
  /\ call.op = "toggleLike"
  /\ call.ret = Some(TRUE)
  /\ idSet(state.likes) = {2}

----------------------------------------------------------------------------
----------------------------------------------------------------------------
(* The process: start, ensureDataFile(), loadState(), requests, end. *)

\* ensureDataFile(): a missing file is written in place, without a
\* temporary file; a throw while the module loads ends the process
ensureDataFile ==
  /\ proc.at = "start"
  /\ IF disk # Absent
     THEN /\ disk' = disk
          /\ proc' = [at |-> "load", threw |-> FALSE]
     ELSE IF fs = "write_fails"
     THEN /\ disk' \in {Absent, Partial}
          /\ proc' = [at |-> "dead", threw |-> TRUE]
     ELSE IF fs = "killed_in_write"
     THEN /\ disk' = Partial
          /\ proc' = [at |-> "dead", threw |-> FALSE]
     ELSE /\ disk' = snapshot(baseState)
          /\ proc' = [at |-> "load", threw |-> FALSE]
  /\ call' = [op |-> "ensureDataFile", args |-> <<>>, ret |-> Null,
              writes |-> IF disk = Absent THEN 1 ELSE 0]
  /\ UNCHANGED <<state, writeQueue, isWriting, tmp, fs, pc, clock>>

\* the state loadState() has before migrateState(): JSON.parse throws on a
\* file that holds no complete document
readState(file) ==
  IF file \in {Absent, Partial} THEN baseState
  ELSE sanitizeState(JSONparse(file))

\* loadState() after ensureDataFile(): migrateState() runs outside the try
\* block, so its TypeError ends loadState() and with it the process
loadState ==
  /\ proc.at = "load"
  /\ IF migrateThrows(readState(disk))
     THEN /\ state' = readState(disk)
          /\ proc' = [at |-> "dead", threw |-> TRUE]
          /\ call' = [op |-> "loadState", args |-> <<>>, ret |-> Null,
                      writes |-> 0]
          /\ UNCHANGED <<writeQueue, isWriting, disk, tmp, clock>>
     ELSE /\ \E now \in nowIso :
               LET st == hydrateCounters(
                           ensureCategoriesSeeded(
                             migrateState(readState(disk), now)))
               IN /\ state' = st
                  /\ clock' = now
                  /\ flushWriteQueue(Append(writeQueue, snapshot(st)))
          /\ proc' = [at |-> IF flushOutcome = "written" THEN "ready"
                             ELSE "dead",
                      threw |-> flushOutcome = "threw"]
          /\ call' = [op |-> "loadState", args |-> <<>>, ret |-> Null,
                      writes |-> 1]
  /\ UNCHANGED <<fs, pc>>

\* the process ends, and a new one starts with the module's initial memory
restart ==
  /\ proc.at # "start"
  /\ proc' = [at |-> "start", threw |-> FALSE]
  /\ state' = baseState
  /\ writeQueue' = <<>>
  /\ isWriting' = FALSE
  /\ pc' = Idle
  /\ call' = [op |-> "restart", args |-> <<>>, ret |-> Null, writes |-> 0]
  /\ UNCHANGED <<disk, tmp, fs, clock>>

\* the file system changes what it will do to the next write
fsFate ==
  /\ \E fate \in FsFates : fate # fs /\ fs' = fate
  /\ UNCHANGED <<state, writeQueue, isWriting, disk, tmp, proc, pc, clock, call>>

----------------------------------------------------------------------------
(* Startup on a stored file. *)

\* what a stored file can hold where a counter or an id is expected
StoredCounters ==
  { JUndefined, JNull, JNumber(0), JNumber(1), JNumber(5), JNumber(0 - 1),
    JFraction(2), JString("7"), JString("x") }
StoredLikeCounters == {JUndefined, JNumber(1), JFraction(5)}
StoredUserIds ==
  { <<>>, <<JNumber(1)>>, <<JNumber(3), JNumber(1)>>, <<JString("7")>>,
    <<JNull>>, <<JNumber(2), JNumber(2)>> }
StoredLikeIds == {<<>>, <<JNumber(4)>>, <<JString("x")>>}

\* a stored user: no created_at, a role that is none
storedUser(id) ==
  [ id |-> id, username |-> <<32, 98>>, email |-> <<65, 64, 120>>,
    password_hash |-> "hash", bio |-> "", avatar_url |-> "",
    created_at |-> 0, role |-> "owner", status |-> "active",
    email_verified |-> TRUE,
    verification_token_hash |-> Null, verification_expires_at |-> Null,
    reset_token_hash |-> Null, reset_expires_at |-> Null ]

storedLike(id) ==
  [id |-> id, user_id |-> JNumber(1), post_id |-> JNumber(1), created_at |-> 1]

\* a document with the given counters and rows, every other key missing
storedFile(users, likes, userIds, likeIds) ==
  LET given == [k \in {"users", "likes"} |-> IF k = "users" THEN users ELSE likes]
  IN [json |->
        [ counters |-> [k \in {c \in DOMAIN given : given[c] # JUndefined} |->
                          given[k]],
          users |-> [i \in 1..Len(userIds) |-> storedUser(userIds[i])],
          likes |-> [i \in 1..Len(likeIds) |-> storedLike(likeIds[i])] ]]

StoredFiles ==
  { storedFile(users, likes, userIds, likeIds) :
      users \in StoredCounters, likes \in StoredLikeCounters,
      userIds \in StoredUserIds, likeIds \in StoredLikeIds }
    \cup {Absent, Partial, snapshot(ensureCategoriesSeeded(baseState))}

InitLoad ==
  /\ state = baseState
  /\ writeQueue = <<>>
  /\ isWriting = FALSE
  /\ disk \in StoredFiles
  /\ tmp = Absent
  /\ fs = "ok"
  /\ proc = [at |-> "start", threw |-> FALSE]
  /\ pc = Idle
  /\ clock = 1
  /\ call = [op |-> "", args |-> <<>>, ret |-> Null, writes |-> 0]

\* requests that allocate an id after startup
NextAfterLoad ==
  /\ proc.at = "ready"
  /\ UNCHANGED pc
  /\ \/ /\ Len(state.users) < MaxRowsAfterLoad
        /\ createUser(<<65, 110>>, <<65, 64, 120>>, "hash")
     \/ /\ Len(state.likes) < MaxRowsAfterLoad
        /\ \E userId \in UserIds :
             findLike(state, userId, 1) = 0 /\ toggleLike(userId, 1)

NextLoad == ensureDataFile \/ loadState \/ NextAfterLoad

SpecLoad == InitLoad /\ [][NextLoad]_vars

\* the counter a file holds for a kind, as toInt() reads it (0 if none)
storedCounter(file, kind) == readState(file).counters[kind]

larger(a, b) == IF a >= b THEN a ELSE b

\* the number of rows with the id
rowsWithId(rows, id) == Cardinality({i \in 1..Len(rows) : rows[i].id = id})

\* C13: loadState leaves every counter at the larger of the stored counter
\* (0 if it is missing or no integer) and the largest id of the loaded rows
\* of the kind (0 if none is positive); and no later step adds a row with an
\* id that a row of the collection already has
C13_CountersCoverLoadedIds ==
  [][ /\ call'.op = "loadState" /\ call.op = "ensureDataFile" =>
          \A k \in Kinds :
            state'.counters[k]
              = larger(storedCounter(disk, k), maxId(state'[k]))
      /\ proc.at = "ready" =>
          \A k \in Kinds : \A id \in idSet(state[k]) :
            rowsWithId(state'[k], id) <= rowsWithId(state[k], id) ]_vars

\* a file with a counter of 1 and users 3 and 1 was loaded, and the user
\* created after it has the id 4
C13_Witness ==
  /\ call.op = "createUser"
  /\ Len(state.users) = 3
  /\ state.users[1].id = 3
  /\ state.users[3].id = 4
  /\ isSnapshot(disk) /\ disk.counters.users = 4

----------------------------------------------------------------------------
(* Storage: the process from its first start, with write faults and kills. *)

InitStorage ==
  /\ state = baseState
  /\ writeQueue = <<>>
  /\ isWriting = FALSE
  /\ disk = Absent
  /\ tmp = Absent
  /\ fs = "ok"
  /\ proc = [at |-> "start", threw |-> FALSE]
  /\ pc = Idle
  /\ clock = 1
  /\ call = [op |-> "", args |-> <<>>, ret |-> Null, writes |-> 0]

\* requests to the running process
NextRequests ==
  /\ proc.at = "ready"
  /\ Len(writeQueue) < MaxQueue
  /\ UNCHANGED pc
  /\ \/ /\ state.counters.users < MaxUsers
        /\ createUser(<<65, 110>>, <<65, 64, 120>>, "hash")
     \/ \E userId \in UserIds :
          /\ findLike(state, userId, 1) # 0 \/ state.counters.likes < MaxToggleIds
          /\ toggleLike(userId, 1)

NextStorage ==
  \/ ensureDataFile
  \/ loadState
  \/ NextRequests
  \/ restart
  \/ fsFate

SpecStorage == InitStorage /\ [][NextStorage]_vars

\* C17: at every point the canonical file holds a complete snapshot, never
\* a partially written one, whatever fails or is killed during a write
C17_CanonicalFileNeverPartial == disk # Partial

\* writeAtomic() alone: every step but ensureDataFile() leaves the canonical
\* file as it was or with the snapshot of the new state, also when the
\* write or the rename fails or the process is killed
WriteAtomicLeavesOldOrNew ==
  [][ call'.op # "ensureDataFile" =>
        disk' = disk \/ disk' = snapshot(state') ]_vars

\* the step is a mutating call that returns normally to its caller
returnsMutation ==
  /\ proc.at = "ready"
  /\ proc'.at = "ready" /\ ~proc'.threw
  /\ state' # state

\* C18: once a write or a rename has failed (the flush flag is left set),
\* no mutating call returns normally with its snapshot unwritten
C18_StorageFaultIsFatal ==
  [][ ~(isWriting /\ returnsMutation /\ disk' # snapshot(state')) ]_vars

ReturnedButNeverWritten ==
  /\ call.op = "createUser"
  /\ proc = [at |-> "ready", threw |-> FALSE]
  /\ isWriting
  /\ isSnapshot(disk) /\ Len(disk.users) < Len(state.users)
  /\ writeQueue # <<>>

\* the step is a call that pushes a snapshot: loadState(), or a mutation
\* in the running process
enqueues ==
  /\ proc.at \in {"load", "ready"}
  /\ fs' = fs
  /\ call'.writes = 1

C37_FlushGuardReleased == proc.at = "ready" => ~isWriting

\* what the code does: the guard is set between two calls only after a
\* failed write, and from then on no step of the process changes the file
\* or takes a snapshot off the queue
GuardStaysSetAfterFault ==
  [][ (proc.at = "ready" /\ isWriting /\ proc'.at = "ready") =>
        /\ isWriting'
        /\ disk' = disk
        /\ Len(writeQueue') >= Len(writeQueue) ]_vars

----------------------------------------------------------------------------
(* Migration of stored comments, reports and users. *)

\* what a stored file can hold where a nullable reference is expected
StoredParents ==
  { JNull, JNumber(2), JNumber(9), JString("7"), JString("x"), JFraction(2) }
StoredSecondParents == {JNull, JNumber(1), JNumber(9)}
StoredAssignees == {JNull, JNumber(1), JString("x")}
StoredDepths == {0, 2}
\* the stored users: none, or an element that is null
StoredUserRows == {<<>>, <<JNull>>}

\* a stored comment without path and created_at
storedComment(id, parent, depth) ==
  [ id |-> JNumber(id), user_id |-> JNumber(1), post_id |-> JNumber(1),
    parent_comment_id |-> parent, depth |-> depth, path |-> <<>>,
    body |-> "hi", is_hidden |-> FALSE, hidden_reason |-> "",
    created_at |-> 0 ]

storedReport(assignee) ==
  [ id |-> JNumber(1), reporter_user_id |-> JNumber(1),
    target_type |-> "post", target_id |-> JNumber(1),
    reason_code |-> "spam", reason_text |-> "", status |-> "in_review",
    assigned_to_user_id |-> assignee, created_at |-> 1,
    resolved_at |-> Null ]

\* a document with two comments, a report and the users, every other key
\* missing
migrateFile(parent, depth, secondParent, assignee, users) ==
  [json |->
     [ users |-> users,
       comments |-> << storedComment(1, parent, depth),
                       storedComment(2, secondParent, 1) >>,
       reports |-> << storedReport(assignee) >> ]]

MigrateFiles ==
  { migrateFile(parent, depth, secondParent, assignee, users) :
      parent \in StoredParents, depth \in StoredDepths,
      secondParent \in StoredSecondParents, assignee \in StoredAssignees,
      users \in StoredUserRows }
    \cup {Partial}

InitMigrate ==
  /\ state = baseState
  /\ writeQueue = <<>>
  /\ isWriting = FALSE
  /\ disk \in MigrateFiles
  /\ tmp = Absent
  /\ fs = "ok"
  /\ proc = [at |-> "start", threw |-> FALSE]
  /\ pc = Idle
  /\ clock = 1
  /\ call = [op |-> "", args |-> <<>>, ret |-> Null, writes |-> 0]

NextMigrate == ensureDataFile \/ loadState \/ restart

SpecMigrate == InitMigrate /\ [][NextMigrate]_vars

\* C21: migrateState on the state it has produced changes no collection:
\* the loaded state, written and read again, migrates to itself
C21_MigrateIsFixedPoint ==
  (call.op = "loadState" /\ proc.at = "ready") =>
    \A now \in nowIso : \A f \in Collections :
      migrateState(readState(snapshot(state)), now)[f] = state[f]

\* the collections other than comments and reports migrate to themselves
MigrateIsFixedPointElsewhere ==
  (call.op = "loadState" /\ proc.at = "ready") =>
    \A now \in nowIso : \A f \in Collections \ {"comments", "reports"} :
      migrateState(readState(snapshot(state)), now)[f] = state[f]

\* the id a stored parent_comment_id names: toInt() of it, if it is truthy
namesId(value) == IF isTruthy(value) THEN Some(toInt(value)) ELSE Null

\* C22: after loadState of a stored document, a comment whose stored
\* parent_comment_id names an id that no loaded comment has, has
\* parent_comment_id null and depth 0, and every parent_comment_id that is
\* not null is the id of a loaded comment
C22_OrphansBecomeRoots ==
  [][ (call'.op = "loadState" /\ proc'.at = "ready" /\ "json" \in DOMAIN disk)
        => \A i \in 1..Len(state'.comments) :
             LET comment == state'.comments[i]
                 named == namesId(disk.json.comments[i].parent_comment_id)
                 ids == idSet(state'.comments)
             IN /\ (named # Null /\ named[1] \notin ids)
                     => comment.parent_comment_id = Null /\ comment.depth = 0
                /\ comment.parent_comment_id # Null
                     => comment.parent_comment_id[1] \in ids ]_vars

\* the same for the stored parents that toInt() reads as an id other than 0
OrphansWithAnIdBecomeRoots ==
  [][ (call'.op = "loadState" /\ proc'.at = "ready" /\ "json" \in DOMAIN disk)
        => \A i \in 1..Len(state'.comments) :
             LET comment == state'.comments[i]
                 named == namesId(disk.json.comments[i].parent_comment_id)
                 ids == idSet(state'.comments)
             IN truthy(named) =>
                  /\ named[1] \notin ids
                       => comment.parent_comment_id = Null /\ comment.depth = 0
                  /\ comment.parent_comment_id # Null
                       => comment.parent_comment_id[1] \in ids ]_vars

\* C23: loadState never throws on a stored document, whatever its rows
\* hold, and a file that cannot be parsed gives the fresh state
C23_StartupNeverFails ==
  [][ call'.op = "loadState" =>
        /\ ~proc'.threw
        /\ disk = Partial =>
             state' = hydrateCounters(ensureCategoriesSeeded(baseState)) ]_vars

\* a file that cannot be parsed gives the fresh state and no error
UnparseableFileGivesFreshState ==
  [][ (call'.op = "loadState" /\ disk = Partial) =>
        /\ proc' = [at |-> "ready", threw |-> FALSE]
        /\ state' = hydrateCounters(ensureCategoriesSeeded(baseState)) ]_vars

----------------------------------------------------------------------------
(* Reading posts: getPostById and the feed. *)

\* viewer ids a read may be given: 0 for no session, every user id, and
\* one that no user has
ViewerIdArgs == 0..(MaxUsers + 1)

\* viewerId ? toPublicUser(getUserById(viewerId)) : null
viewerOf(st, viewerId) ==
  IF viewerId = 0 \/ getUserById(st, viewerId) = 0 THEN Null
  ELSE Some(toPublicUser(st.users[getUserById(st, viewerId)]))

\* canSeeHiddenPost that shows every post
canSeeEveryPost(post, viewer) == TRUE

canSeeHiddenPost(post, viewer) ==
  IF ~post.is_hidden THEN TRUE ELSE canViewHidden(viewer, post.user_id)

countLikes(st, postId) ==
  Len(SelectSeq(st.likes, LAMBDA like : like.post_id = postId))

countBookmarks(st, postId) ==
  Len(SelectSeq(st.bookmarks, LAMBDA bookmark : bookmark.post_id = postId))

\* decoratePost: the fields that come from the post, its author and its
\* likes and bookmarks
decoratePost(st, post, viewerId) ==
  LET viewer == viewerOf(st, viewerId)
      author == getUserById(st, post.user_id)
  IN [ id |-> post.id,
       title |-> post.title,
       media_type |-> post.media_type,
       created_at |-> post.created_at,
       is_hidden |-> post.is_hidden,
       hidden_reason |-> post.hidden_reason,
       author_id |-> IF author = 0 THEN Null ELSE Some(st.users[author].id),
       like_count |-> countLikes(st, post.id),
       bookmark_count |-> countBookmarks(st, post.id),
       liked_by_me |->
         IF viewer # Null /\ findLike(st, viewer[1].id, post.id) # 0
         THEN 1 ELSE 0 ]

getPostById(st, postId, viewerId) ==
  LET i == getPostRawById(st, postId) IN
  IF i = 0 THEN Null
  ELSE IF ~canSeeHiddenPost(st.posts[i], viewerOf(st, viewerId)) THEN Null
  ELSE Some(decoratePost(st, st.posts[i], viewerId))

\* items.sort((a, b) => b.created_at - a.created_at): newest first, rows of
\* one time in the order they had
sortNewestFirst(items) ==
  LET F[i \in 0..Len(items)] ==
        IF i = 0 THEN <<>>
        ELSE SelectSeq(F[i - 1],
                       LAMBDA x : x.created_at >= items[i].created_at)
               \o <<items[i]>>
               \o SelectSeq(F[i - 1],
                            LAMBDA x : x.created_at < items[i].created_at)
  IN F[Len(items)]

\* index in st.categories of the category with the slug, 0 for none
getCategoryBySlug(st, slug) ==
  firstIndex({j \in 1..Len(st.categories) : st.categories[j].slug = slug})

\* filterPostsForFeed({ viewerId, categorySlug, tagSlug }) without a query;
\* a slug is a string, the empty one standing for null as well (both falsy)
filterPostsForFeed(st, viewerId, categorySlug, tagSlug) ==
  LET viewer == viewerOf(st, viewerId)
      category == IF categorySlug # <<>>
                  THEN getCategoryBySlug(st, categorySlug) ELSE 0
      tag == IF tagSlug # <<>> THEN getTagBySlug(st, tagSlug) ELSE 0
      tagPostIds ==
        IF tag # 0
        THEN {st.post_tags[k].post_id :
                k \in {k \in 1..Len(st.post_tags) :
                         st.post_tags[k].tag_id = st.tags[tag].id}}
        ELSE {}
  IN sortNewestFirst(SelectSeq(st.posts, LAMBDA post :
       /\ canSeeHiddenPost(post, viewer)
       /\ ~(category # 0 /\ post.category_id # st.categories[category].id)
       /\ ~(tag # 0 /\ post.id \notin tagPostIds)))

NextVisibility ==
  /\ UNCHANGED pc
  /\ \/ /\ state.counters.users < MaxUsers
        /\ createUser(<<65, 110>>, <<65, 64, 120>>, "hash")
     \/ /\ state.counters.posts < MaxPosts
        /\ \E user_id \in UserIds :
             createPost(user_id, 1, <<82, 101, 101, 108>>, "none", <<>>)
     \/ \E postId \in PostIds : hidePost(postId, "spam")
     \/ \E postId \in PostIds : unhidePost(postId)
     \/ \E id \in UserIds, role \in ROLES : updateUserRole(id, role)

SpecVisibility == Init /\ [][NextVisibility]_vars

\* the viewer may see the post: it is not hidden, or the viewer is a user
\* who wrote it or who is moderator or admin
mayRead(st, post, viewerId) ==
  \/ ~post.is_hidden
  \/ \E i \in 1..Len(st.users) :
       /\ viewerId # 0 /\ st.users[i].id = viewerId
       /\ viewerId = post.user_id \/ st.users[i].role \in {"moderator", "admin"}

\* C24: getPostById returns a post, and the feed holds it, exactly for the
\* viewers who may read it: everyone if it is not hidden, its author and
\* the moderators and admins if it is hidden, and never a viewer without a
\* session if it is hidden
C24_HiddenPostsOnlyForAuthorAndStaff ==
  \A viewerId \in ViewerIdArgs : \A i \in 1..Len(state.posts) :
    LET post == state.posts[i]
        got == getPostById(state, post.id, viewerId)
        feed == filterPostsForFeed(state, viewerId, <<>>, <<>>)
    IN /\ (got # Null) <=> mayRead(state, post, viewerId)
       /\ got # Null => got[1].id = post.id /\ got[1].is_hidden = post.is_hidden
       /\ (\E k \in 1..Len(feed) : feed[k] = post)
            <=> mayRead(state, post, viewerId)
       /\ (viewerId = 0 /\ post.is_hidden) => got = Null

\* post 2 of user 2 is hidden: user 2, who is no moderator, reads it, the
\* admin reads it, and a viewer without a session does not
C24_Witness ==
  /\ Len(state.posts) = 2 /\ Len(state.users) = 2
  /\ state.posts[2].user_id = 2 /\ state.posts[2].is_hidden
  /\ state.users[2].role = "user" /\ state.users[1].role = "admin"
  /\ state.posts[1].user_id = 1 /\ state.posts[1].is_hidden
  /\ getPostById(state, 2, 2) # Null
  /\ getPostById(state, 1, 2) = Null
  /\ getPostById(state, 2, 1) # Null
  /\ getPostById(state, 2, 0) = Null
  /\ Len(filterPostsForFeed(state, 2, <<>>, <<>>)) = 1

----------------------------------------------------------------------------
(* Pages of the feed. *)

smaller(a, b) == IF a <= b THEN a ELSE b

\* Math.ceil(a / b) for a >= 0 and b > 0
ceilDiv(a, b) == (a + b - 1) \div b

\* items.slice(start, end) for 0 <= start <= end
slice(items, start, end) == SubSeq(items, start + 1, smaller(end, Len(items)))

\* paginate that takes the page as it is once it is at least 1
paginateUnclamped(items, page, pageSize) ==
  LET size == smaller(larger(IF pageSize = 0 THEN DefaultPageSize ELSE pageSize,
                             1), MAX_PAGE_SIZE)
      total == Len(items)
      pages == larger(1, ceilDiv(total, size))
      safePage == larger(IF page = 0 THEN 1 ELSE page, 1)
      start == (safePage - 1) * size
  IN [ items |-> slice(items, start, start + size), total |-> total,
       pages |-> pages, page |-> safePage, pageSize |-> size ]

paginate(items, page, pageSize) ==
  LET size == smaller(larger(IF pageSize = 0 THEN DefaultPageSize ELSE pageSize,
                             1), MAX_PAGE_SIZE)
      total == Len(items)
      pages == larger(1, ceilDiv(total, size))
      safePage == smaller(larger(IF page = 0 THEN 1 ELSE page, 1), pages)
      start == (safePage - 1) * size
  IN [ items |-> slice(items, start, start + size), total |-> total,
       pages |-> pages, page |-> safePage, pageSize |-> size ]

\* pages and page sizes a read may be given
PageArgs == {0 - 1, 0, 1, 2, 3, 1000}
PageSizeArgs == {0 - 5, 0, 1, 2, 31, 1000}

\* getFeedPosts({ viewerId, categorySlug, tagSlug, page, pageSize })
getFeedPosts(viewerId, categorySlug, tagSlug, page, pageSize) ==
  LET filtered == filterPostsForFeed(state, viewerId, categorySlug, tagSlug)
      result == paginate(filtered, page, pageSize)
  IN /\ call' = [op |-> "getFeedPosts",
                 args |-> [viewerId |-> viewerId,
                           categorySlug |-> categorySlug,
                           tagSlug |-> tagSlug,
                           page |-> page, pageSize |-> pageSize],
                 ret |-> Some([result EXCEPT
                                 !.items = [i \in 1..Len(result.items) |->
                                              decoratePost(state, result.items[i],
                                                           viewerId)]]),
                 writes |-> 0]
     /\ UNCHANGED <<state, clock>>
     /\ noWrite

NextFeed ==
  /\ UNCHANGED pc
  /\ \/ /\ state.counters.posts < MaxFeedPosts
        /\ createPost(1, 1, <<82, 101, 101, 108>>, "none", <<>>)
     \/ \E page \in PageArgs, pageSize \in PageSizeArgs :
          getFeedPosts(0, <<>>, <<>>, page, pageSize)

SpecFeed == Init /\ [][NextFeed]_vars

\* C25: whatever integers page and pageSize are, the page size returned is
\* from 1 to 30, pages is max(1, ceil(total / pageSize)), the page returned
\* is the page asked for brought into 1..pages, the items are the rows of
\* that page, at most pageSize of them, and there is none only when the
\* list is empty
C25_PaginateClamps ==
  call.op = "getFeedPosts" =>
    LET r == call.ret[1]
        list == filterPostsForFeed(state, call.args.viewerId, <<>>, <<>>)
        page == call.args.page
    IN /\ r.pageSize \in 1..MAX_PAGE_SIZE
       /\ r.total = Len(list)
       /\ r.pages = larger(1, ceilDiv(r.total, r.pageSize))
       /\ r.page \in 1..r.pages
       /\ r.page = (IF page < 1 THEN 1
                    ELSE IF page > r.pages THEN r.pages ELSE page)
       /\ Len(r.items) \in 0..r.pageSize
       /\ \A i \in 1..Len(r.items) :
            r.items[i].id = list[(r.page - 1) * r.pageSize + i].id
       /\ Len(r.items) = smaller(r.pageSize,
                                 r.total - (r.page - 1) * r.pageSize)
       /\ Len(r.items) = 0 => r.total = 0

\* page 1000 of three posts in pages of 2 is page 2, with the oldest post
C25_Witness ==
  /\ call.op = "getFeedPosts"
  /\ call.args.page = 1000 /\ call.args.pageSize = 2
  /\ call.ret[1].total = 3
  /\ call.ret[1].page = 2 /\ call.ret[1].pages = 2
  /\ Len(call.ret[1].items) = 1

----------------------------------------------------------------------------
(* Tags, from the empty store by createPost alone. *)

\* the tag lists createPost may be given: those of TagNameArgs, "c+" alone,
\* and the eight names a b a c d e f g
TagListArgs ==
  TagNameArgs \cup
    { << <<99, 43>> >>,
      << <<97>>, <<98>>, <<97>>, <<99>>, <<100>>, <<101>>, <<102>>, <<103>> >> }

NextTags ==
  /\ UNCHANGED pc
  /\ state.counters.posts < MaxPosts
  /\ \E user_id \in UserIds, tag_names \in TagListArgs :
       createPost(user_id, 1, <<82, 101, 101, 108>>, "none", tag_names)

SpecTags == Init /\ [][NextTags]_vars

\* the rows of post_tags of the post
tagRowsOf(st, postId) ==
  SelectSeq(st.post_tags, LAMBDA item : item.post_id = postId)

\* C26: no post has more than five rows in post_tags, and createPost
\* leaves the rows of every other post as they were and where they were
C26_AtMostFiveTagsPerPost ==
  /\ [](\A postId \in PostIds :
          Len(tagRowsOf(state, postId)) <= MaxTagNames)
  /\ [][ call'.op = "createPost" =>
           SelectSeq(state'.post_tags,
                     LAMBDA item : item.post_id # call'.ret[1].id)
             = state.post_tags ]_vars

\* the second post was given eight names and has five rows, and the first
\* post has kept its two
C26_Witness ==
  /\ call.op = "createPost"
  /\ Len(call.args.tag_names) = 8
  /\ call.ret[1].id = 2
  /\ Len(tagRowsOf(state, 2)) = MaxTagNames
  /\ Len(tagRowsOf(state, 1)) = 2

\* the names of a createPost call that collide: the slug of the name is the
\* slug of a tag that has another name
collidingNames(st, tagNames) ==
  LET names == uniqueNames(tagNames) IN
  { names[k] : k \in { j \in 1..Len(names) :
      \E i \in 1..Len(st.tags) :
        /\ st.tags[i].slug = slugify(names[j])
        /\ st.tags[i].name # trim(names[j]) } }

\* slug is base followed by a hyphen and a number
hasNumericSuffix(slug, base) ==
  \E n \in 2..(MaxTagNames * MaxPosts + 1) :
    slug = base \o <<CharHyphen>> \o DecimalString(n)

\* C27: a createPost with a tag name whose slug is the slug of an existing
\* tag of another name creates a tag of that name whose slug is the slug
\* with a numeric suffix
C27_SlugCollisionGetsSuffix ==
  [][ call'.op = "createPost" =>
        \A name \in collidingNames(state, call'.args.tag_names) :
          \E i \in (Len(state.tags) + 1)..Len(state'.tags) :
            /\ state'.tags[i].name = name
            /\ hasNumericSuffix(state'.tags[i].slug, slugify(name)) ]_vars

\* what the code does with such a name: no tag is created for it, and the
\* post gets a row for the existing tag with that slug
SlugCollisionReusesTag ==
  [][ call'.op = "createPost" =>
        \A name \in collidingNames(state, call'.args.tag_names) :
          /\ \A i \in 1..Len(state'.tags) : state'.tags[i].name # name
          /\ \E k \in 1..Len(state'.post_tags) :
               /\ state'.post_tags[k].post_id = call'.ret[1].id
               /\ state'.post_tags[k].tag_id
                    = state.tags[getTagBySlug(state, slugify(name))].id ]_vars

\* C28: no two tags have the same slug, and no tag has the empty slug
C28_TagSlugsUniqueAndNonEmpty ==
  \A i, j \in 1..Len(state.tags) :
    /\ state.tags[i].slug # <<>>
    /\ state.tags[i].slug = state.tags[j].slug => i = j

\* the names "C " and "c+" and the name "+" were used, and the tags are
\* "c" and "d"
C28_Witness ==
  /\ Len(state.posts) = 2
  /\ Len(state.tags) = 2
  /\ state.tags[1].slug = <<99>> /\ state.tags[2].slug = <<100>>
  /\ Len(tagRowsOf(state, 1)) = 2 /\ Len(tagRowsOf(state, 2)) = 1

\* C38: post_tags holds no two rows with the same post_id and tag_id, in
\* every state that createPost calls reach from the empty store
C38_NoDuplicateTagRows ==
  \A i, j \in 1..Len(state.post_tags) :
    state.post_tags[i] = state.post_tags[j] => i = j

\* what the code does: createPost gives the post one row for every name it
\* keeps that has a slug, also when two of the names have the same slug
OneTagRowPerKeptName ==
  call.op = "createPost" =>
    LET names == uniqueNames(call.args.tag_names) IN
    Len(tagRowsOf(state, call.ret[1].id))
      = Cardinality({k \in 1..Len(names) : slugify(names[k]) # <<>>})

----------------------------------------------------------------------------
(* Calls addressed to a row that does not exist. *)

updateUserProfile(id, bio, avatar_url) ==
  LET i == getUserById(state, id)
      args == [id |-> id, bio |-> bio, avatar_url |-> avatar_url]
  IN
  IF i = 0
  THEN /\ call' = [op |-> "updateUserProfile", args |-> args, ret |-> Null,
                   writes |-> 0]
       /\ UNCHANGED <<state, clock>>
       /\ noWrite
  ELSE LET st == [state EXCEPT !.users[i].bio = bio,
                               !.users[i].avatar_url = avatar_url]
       IN /\ state' = st
          /\ UNCHANGED clock
          /\ enqueueWrite(st)
          /\ call' = [op |-> "updateUserProfile", args |-> args,
                      ret |-> Some(toPublicUser(st.users[i])), writes |-> 1]

\* ids a call may be given: the one a row has, and one no row has
TargetIdArgs == 1..(MaxModTargets + 1)

NextMissing ==
  /\ UNCHANGED pc
  /\ \/ /\ state.counters.users < MaxModTargets
        /\ createUser(<<65, 110>>, <<65, 64, 120>>, "hash")
     \/ /\ state.counters.posts < MaxModTargets
        /\ createPost(1, 1, <<82, 101, 101, 108>>, "none", <<>>)
     \/ /\ state.counters.comments < MaxModTargets
        /\ addComment(1, 1, "hi", Null)
     \/ /\ state.counters.reports < MaxModTargets
        /\ createReport(1, "post", 1, "spam", "")
     \/ \E id \in TargetIdArgs : hidePost(id, "spam")
     \/ \E id \in TargetIdArgs : unhidePost(id)
     \/ \E id \in TargetIdArgs : hideComment(id, "spam")
     \/ \E id \in TargetIdArgs : unhideComment(id)
     \/ \E id \in TargetIdArgs : assignReport(id, 1)
     \/ \E id \in TargetIdArgs : resolveReport(id, "resolved")
     \/ \E id \in TargetIdArgs, role \in {"moderator", "owner"} :
          updateUserRole(id, role)
     \/ \E id \in TargetIdArgs, status \in {"suspended", "muted"} :
          updateUserStatus(id, status)
     \/ \E id \in TargetIdArgs : updateUserProfile(id, "bio", "")

SpecMissing == Init /\ [][NextMissing]_vars

\* the call c is addressed to an id that no row of st has, or is an
\* updateUserRole or updateUserStatus with a value that is none
addressedToNothing(st, c) ==
  CASE c.op \in {"hidePost", "unhidePost"} ->
         getPostRawById(st, c.args.postId) = 0
    [] c.op \in {"hideComment", "unhideComment"} ->
         getCommentRawById(st, c.args.commentId) = Null
    [] c.op \in {"assignReport", "resolveReport"} ->
         getReportById(st, c.args.reportId) = 0
    [] c.op = "updateUserRole" ->
         getUserById(st, c.args.id) = 0 \/ c.args.role \notin ROLES
    [] c.op = "updateUserStatus" ->
         getUserById(st, c.args.id) = 0 \/ c.args.status \notin USER_STATUS
    [] c.op = "updateUserProfile" -> getUserById(st, c.args.id) = 0
    [] OTHER -> FALSE

\* C29: a call addressed to a missing id, and an updateUserRole or
\* updateUserStatus with an unrecognized value, returns null, does not
\* throw, leaves the state as it was and pushes and writes no snapshot
C29_MissingTargetChangesNothing ==
  [][ addressedToNothing(state, call') =>
        /\ call'.ret = Null
        /\ ~proc'.threw
        /\ state' = state
        /\ writeQueue' = writeQueue
        /\ disk' = disk
        /\ call'.writes = 0 ]_vars

\* updateUserRole of the one user to a role that is none was refused, after
\* a hidden post and an assigned report
C29_Witness ==
  /\ call.op = "updateUserRole"
  /\ call.args = [id |-> 1, role |-> "owner"]
  /\ call.ret = Null
  /\ Len(state.users) = 1 /\ state.users[1].role = "admin"
  /\ Len(state.posts) = 1 /\ state.posts[1].is_hidden
  /\ disk = snapshot(state)

----------------------------------------------------------------------------
(* The routes that create and toggle content (server.js). *)

setVerificationToken(userId, tokenHash, expiresAt) ==
  LET i == getUserById(state, userId)
      args == [userId |-> userId, tokenHash |-> tokenHash]
  IN
  IF i = 0
  THEN /\ call' = [op |-> "setVerificationToken", args |-> args, ret |-> Null,
                   writes |-> 0]
       /\ UNCHANGED <<state, clock>>
       /\ noWrite
  ELSE LET st == [state EXCEPT
                    !.users[i].verification_token_hash = Some(tokenHash),
                    !.users[i].verification_expires_at = Some(expiresAt)]
       IN /\ state' = st
          /\ UNCHANGED clock
          /\ enqueueWrite(st)
          /\ call' = [op |-> "setVerificationToken", args |-> args,
                      ret |-> Some(st.users[i]), writes |-> 1]

\* verifyUserByTokenHash(tokenHash), Date.now() being a reading of the clock
verifyUserByTokenHash(tokenHash) ==
  \E now \in nowIso :
    LET i == firstIndex({j \in 1..Len(state.users) :
                           /\ state.users[j].verification_token_hash
                                = Some(tokenHash)
                           /\ state.users[j].verification_expires_at # Null
                           /\ state.users[j].verification_expires_at[1] >= now})
        args == [tokenHash |-> tokenHash]
    IN
    IF i = 0
    THEN /\ call' = [op |-> "verifyUserByTokenHash", args |-> args,
                     ret |-> Null, writes |-> 0]
         /\ clock' = now
         /\ UNCHANGED state
         /\ noWrite
    ELSE LET st == [state EXCEPT !.users[i].email_verified = TRUE,
                                 !.users[i].verification_token_hash = Null,
                                 !.users[i].verification_expires_at = Null]
         IN /\ state' = st
            /\ clock' = now
            /\ enqueueWrite(st)
            /\ call' = [op |-> "verifyUserByTokenHash", args |-> args,
                        ret |-> Some(st.users[i]), writes |-> 1]

\* requireVerified that lets every session through
requireSession(user) == user # Null

\* requireAuth and requireVerified call next() for req.currentUser
requireVerified(user) ==
  /\ user # Null
  /\ user[1].email_verified
  /\ user[1].status = "active"

\* a request that is answered with a redirect before a store call
routeRedirects(route, sessionUserId) ==
  /\ call' = [op |-> "redirect",
              args |-> [route |-> route, sessionUserId |-> sessionUserId],
              ret |-> Null, writes |-> 0]
  /\ UNCHANGED <<state, clock>>
  /\ noWrite

\* POST /posts with a text of 20 characters or more and no media
routeCreatePost(sessionUserId, category_id, title) ==
  LET user == currentUser(state, sessionUserId) IN
  IF \/ ~requireVerified(user)
     \/ \A i \in 1..Len(state.categories) : state.categories[i].id # category_id
     \/ Len(trim(title)) < MinTitleLength
  THEN routeRedirects("POST /posts", sessionUserId)
  ELSE createPost(user[1].id, category_id, trim(title), "none", <<>>)

\* POST /posts/:id/like
routeLike(sessionUserId, postId) ==
  LET user == currentUser(state, sessionUserId) IN
  IF ~requireVerified(user) \/ postId <= 0 \/ getPostRawById(state, postId) = 0
  THEN routeRedirects("POST /posts/:id/like", sessionUserId)
  ELSE toggleLike(user[1].id, postId)

\* POST /posts/:id/bookmark
routeBookmark(sessionUserId, postId) ==
  LET user == currentUser(state, sessionUserId) IN
  IF ~requireVerified(user) \/ postId <= 0 \/ getPostRawById(state, postId) = 0
  THEN routeRedirects("POST /posts/:id/bookmark", sessionUserId)
  ELSE toggleBookmark(user[1].id, postId)

\* POST /posts/:id/comments with a body of 2 to 1500 characters
routeComment(sessionUserId, postId, body) ==
  LET user == currentUser(state, sessionUserId) IN
  IF ~requireVerified(user) \/ postId <= 0 \/ getPostRawById(state, postId) = 0
  THEN routeRedirects("POST /posts/:id/comments", sessionUserId)
  ELSE addComment(user[1].id, postId, body, Null)

\* POST /posts/:id/comments/:commentId/reply
routeReply(sessionUserId, postId, commentId, body) ==
  LET user == currentUser(state, sessionUserId)
      parent == getCommentRawById(state, commentId)
  IN
  IF \/ ~requireVerified(user) \/ postId <= 0 \/ commentId <= 0
     \/ parent = Null \/ parent[1].post_id # postId
  THEN routeRedirects("POST /posts/:id/comments/:commentId/reply", sessionUserId)
  ELSE addComment(user[1].id, postId, body, Some(commentId))

\* POST /posts/:id/comments/:commentId/reactions
routeReaction(sessionUserId, postId, commentId, reactionType) ==
  LET user == currentUser(state, sessionUserId)
      comment == getCommentRawById(state, commentId)
  IN
  IF \/ ~requireVerified(user) \/ postId <= 0 \/ commentId <= 0
     \/ comment = Null \/ comment[1].post_id # postId
     \/ reactionType \notin REACTIONS
  THEN routeRedirects("POST /posts/:id/comments/:commentId/reactions",
                      sessionUserId)
  ELSE toggleCommentReaction(user[1].id, commentId, reactionType)

\* POST /reports
routeReport(sessionUserId, targetType, targetId) ==
  LET user == currentUser(state, sessionUserId)
      targetExists ==
        IF targetType = "post" THEN getPostRawById(state, targetId) # 0
        ELSE IF targetType = "comment"
        THEN getCommentRawById(state, targetId) # Null
        ELSE getUserById(state, targetId) # 0
  IN
  IF \/ ~requireVerified(user)
     \/ targetType \notin REPORT_TARGETS \/ targetId <= 0
     \/ ~targetExists
  THEN routeRedirects("POST /reports", sessionUserId)
  ELSE createReport(user[1].id, targetType, targetId, "spam", "")

\* a title of six characters: "Reels!"; the last user is the one who
\* verifies and gets suspended, the other users stay unverified
RouteTitle == <<82, 101, 101, 108, 115, 33>>

NextRoutes ==
  /\ UNCHANGED pc
  /\ \/ /\ state.counters.users < MaxUsers
        /\ createUser(<<65, 110>>, <<65, 64, 120>>, "hash")
     \/ setVerificationToken(MaxUsers, "token", MaxTime)
     \/ verifyUserByTokenHash("token")
     \/ \E status \in {"active", "suspended"} :
          updateUserStatus(MaxUsers, status)
     \/ \E sessionUserId \in UserIds :
          \/ /\ state.counters.posts < MaxRouteRows
             /\ routeCreatePost(sessionUserId, 1, RouteTitle)
          \/ /\ state.counters.likes < MaxRouteRows
             /\ routeLike(sessionUserId, 1)
          \/ /\ state.counters.bookmarks < MaxRouteRows
             /\ routeBookmark(sessionUserId, 1)
          \/ /\ state.counters.comments < MaxRouteRows
             /\ routeComment(sessionUserId, 1, "hi")
          \/ /\ state.counters.comments < MaxRouteRows + 1
             /\ routeReply(sessionUserId, 1, 1, "hi")
          \/ /\ state.counters.comment_reactions < MaxRouteRows
             /\ routeReaction(sessionUserId, 1, 1, "like")
          \/ /\ state.counters.reports < MaxRouteRows
             /\ routeReport(sessionUserId, "post", 1)

SpecRoutes == Init /\ [][NextRoutes]_vars

\* the collections of content, and the field that names the row's user
ContentCollections ==
  {"posts", "comments", "likes", "bookmarks", "comment_reactions", "reports"}

ownerOf(f, row) == IF f = "reports" THEN row.reporter_user_id ELSE row.user_id

rowSet(rows) == {rows[i] : i \in 1..Len(rows)}

\* the rows of a collection that are in one of the two states only
changedRows(f, old, new) ==
  (rowSet(new[f]) \ rowSet(old[f])) \cup (rowSet(old[f]) \ rowSet(new[f]))

\* the user exists, has verified the email and is active
verifiedAndActive(st, userId) ==
  \E i \in 1..Len(st.users) :
    /\ st.users[i].id = userId
    /\ st.users[i].email_verified
    /\ st.users[i].status = "active"

\* C30: every row of content that a step creates or removes is a row of a
\* user who has a verified email and the status active when the step is
\* taken, and a request that is turned away leaves the state, the queue
\* and the file as they were
C30_ContentOnlyByVerifiedActiveUsers ==
  [][ /\ \A f \in ContentCollections :
           \A row \in changedRows(f, state, state') :
             verifiedAndActive(state, ownerOf(f, row))
      /\ call'.op = "redirect" =>
           state' = state /\ writeQueue' = writeQueue /\ disk' = disk ]_vars

\* user 2 has verified and has written the post; the like of user 1, who
\* has not verified, was turned away
C30_Witness ==
  /\ call.op = "redirect"
  /\ call.args = [route |-> "POST /posts/:id/like", sessionUserId |-> 1]
  /\ Len(state.users) = 2
  /\ ~state.users[1].email_verified /\ state.users[1].status = "active"
  /\ state.users[2].email_verified
  /\ Len(state.posts) = 1 /\ state.posts[1].user_id = 2
  /\ state.likes = <<>>

----------------------------------------------------------------------------
(* Registration (server.js, POST /register). *)

\* the shortest and longest username, the shortest email and password
MinUsernameLength == 3
MaxUsernameLength == 24
MinEmailLength == 5
MinPasswordLength == 6
CharAt == 64

\* the forms a registration may post, as character codes: the usernames
\* "Ann", "ann ", "Bob" and "Bo"; the emails "A@x.y", " a@x.y", "b@x.y" and "a.x.y";
\* the passwords "secret" and "abc"
RegisterUsernames ==
  {<<65, 110, 110>>, <<97, 110, 110, 32>>, <<66, 111, 98>>, <<66, 111>>}
RegisterEmails ==
  { <<65, 64, 120, 46, 121>>, <<32, 97, 64, 120, 46, 121>>,
    <<98, 64, 120, 46, 121>>, <<97, 46, 120, 46, 121>> }
RegisterPasswords == {"secret", "abc"}
passwordLength(password) == IF password = "secret" THEN 6 ELSE 3

\* index in state.users of the user getUserByEmail finds, 0 for none
getUserByEmail(st, email) ==
  firstIndex({j \in 1..Len(st.users) :
                st.users[j].email = normalizeText(email)})

\* getUserByUsername that compares the stored name as it was typed
getUserByUsernameExact(st, username) ==
  firstIndex({j \in 1..Len(st.users) :
                st.users[j].username = normalizeText(username)})

\* index in state.users of the user getUserByUsername finds, 0 for none
getUserByUsername(st, username) ==
  firstIndex({j \in 1..Len(st.users) :
                toLowerCase(st.users[j].username) = normalizeText(username)})

\* POST /register up to the return of createUser: the checks of the form,
\* the two lookups and createUser run in one turn of the event loop
routeRegister(sessionUserId, formUsername, formEmail, formPassword) ==
  LET username == trim(formUsername)
      email == toLowerCase(trim(formEmail))
  IN
  /\ pc.at \in {"idle", "email"}
  /\ IF \/ currentUser(state, sessionUserId) # Null
        \/ Len(username) < MinUsernameLength
        \/ Len(username) > MaxUsernameLength
        \/ \A i \in 1..Len(email) : email[i] # CharAt
        \/ Len(email) < MinEmailLength
        \/ passwordLength(formPassword) < MinPasswordLength
        \/ getUserByEmail(state, email) # 0
        \/ getUserByUsername(state, username) # 0
     THEN /\ routeRedirects("POST /register", sessionUserId)
          /\ UNCHANGED pc
     ELSE /\ createUser(username, email, "hash")
          /\ pc' = [pc EXCEPT !.at = IF proc'.threw \/ proc'.at = "dead"
                                     THEN "idle" ELSE "token"]

\* POST /register after createUser, in the same turn: the verification
\* token is stored for the new user, then the handler awaits the mail
routeRegisterToken ==
  /\ pc.at = "token"
  /\ setVerificationToken(call.ret[1].id, "token", MaxTime)
  /\ pc' = [pc EXCEPT !.at = IF proc'.threw \/ proc'.at = "dead"
                             THEN "idle" ELSE "email"]

\* POST /register after `await sendVerificationEmail`: the session is set
\* and the response sent; the store is not touched
routeRegisterDone ==
  /\ pc.at = "email"
  /\ pc' = [pc EXCEPT !.at = "idle", !.outcome = "registered"]
  /\ call' = [op |-> "registered", args |-> <<>>, ret |-> Null, writes |-> 0]
  /\ UNCHANGED <<state, clock>>
  /\ noWrite

\* registration requests of visitors and of logged-in users, interleaved at
\* the await of the handler
NextRegister ==
  \/ /\ state.counters.users < MaxUsers
     /\ \E sessionUserId \in {0} \cup UserIds :
        \E formUsername \in RegisterUsernames, formEmail \in RegisterEmails :
        \E formPassword \in RegisterPasswords :
          routeRegister(sessionUserId, formUsername, formEmail, formPassword)
  \/ routeRegisterToken
  \/ routeRegisterDone

SpecRegister == Init /\ [][NextRegister]_vars

\* C31: no two users have the same username compared without regard to
\* case, or the same email compared after lowercasing and trimming, in any
\* state that interleaved registration requests reach
C31_UsernamesAndEmailsUnique ==
  \A i, j \in 1..Len(state.users) :
    i # j =>
      /\ toLowerCase(state.users[i].username)
           # toLowerCase(state.users[j].username)
      /\ normalizeText(state.users[i].email)
           # normalizeText(state.users[j].email)

\* a registration was turned away for a username that differs from a
\* stored one in case only, while an earlier registration awaits its mail
C31_Witness ==
  /\ call.op = "redirect"
  /\ call.args.route = "POST /register"
  /\ pc.at = "email"
  /\ Len(state.users) = 1
  /\ state.users[1].username = <<65, 110, 110>>

----------------------------------------------------------------------------
(* The feed filtered by category and tag. *)

\* the category slugs the feed may be asked for: none, "videography",
\* "photography" and "x", the slug of no category
FeedCategorySlugs ==
  {<<>>, categorySeed[1].slug, categorySeed[2].slug, <<120>>}
\* the tag slugs the feed may be asked for: none, "c", "d" and "x"
FeedTagSlugs == {<<>>, <<99>>, <<100>>, <<120>>}
\* the tag lists of the posts: none, "c", and "c" with "d"
FeedTagLists == {<<>>, << <<99>> >>, << <<99>>, <<100>> >>}

NextFilter ==
  /\ UNCHANGED pc
  /\ \/ /\ state.counters.posts < MaxPosts
        /\ \E category_id \in {1, 2}, tag_names \in FeedTagLists :
             createPost(1, category_id, <<82, 101, 101, 108>>, "none",
                        tag_names)
     \/ \E categorySlug \in FeedCategorySlugs, tagSlug \in FeedTagSlugs :
          getFeedPosts(0, categorySlug, tagSlug, 1, DefaultPageSize)

SpecFilter == Init /\ [][NextFilter]_vars

\* the post is of a category with the slug
inCategory(st, post, slug) ==
  \E j \in 1..Len(st.categories) :
    st.categories[j].slug = slug /\ st.categories[j].id = post.category_id

\* post_tags relates the post to a tag with the slug
hasTag(st, post, slug) ==
  \E j \in 1..Len(st.tags), k \in 1..Len(st.post_tags) :
    /\ st.tags[j].slug = slug
    /\ st.post_tags[k].tag_id = st.tags[j].id
    /\ st.post_tags[k].post_id = post.id

\* the posts a feed query returned
returnedPosts(st, c) ==
  {st.posts[getPostRawById(st, c.ret[1].items[i].id)] :
     i \in 1..Len(c.ret[1].items)}

\* C32: when the feed query is given a category slug, every post it returns
\* is of the category with that slug, and when it is given a tag slug, every
\* post it returns is related to the tag with that slug; a slug of no
\* category or tag gives no posts
C32_FeedFiltersBySlug ==
  call.op = "getFeedPosts" =>
    \A post \in returnedPosts(state, call) :
      /\ call.args.categorySlug # <<>> =>
           inCategory(state, post, call.args.categorySlug)
      /\ call.args.tagSlug # <<>> => hasTag(state, post, call.args.tagSlug)

\* what the code does: a slug that names a category or a tag filters the
\* feed by it, and a slug that names none is left out of the filter
FeedFiltersByKnownSlug ==
  call.op = "getFeedPosts" =>
    LET categorySlug == call.args.categorySlug
        tagSlug == call.args.tagSlug
        byCategory == categorySlug # <<>>
                        /\ getCategoryBySlug(state, categorySlug) # 0
        byTag == tagSlug # <<>> /\ getTagBySlug(state, tagSlug) # 0
    IN returnedPosts(state, call) =
         {state.posts[i] : i \in {i \in 1..Len(state.posts) :
            /\ ~state.posts[i].is_hidden
            /\ byCategory => inCategory(state, state.posts[i], categorySlug)
            /\ byTag => hasTag(state, state.posts[i], tagSlug)}}

----------------------------------------------------------------------------
(* Migration of stored comment paths. *)

\* what a stored file can hold as the parent of the second comment (the
\* first comment, or a comment that is not stored), as its path (none, or
\* the path under comment 9) and as the parent of the third comment
StoredReplyParents == {JNumber(1), JNumber(9)}
StoredReplyPaths == {<<>>, padId(9) \o <<CharDot>> \o padId(2)}
StoredThirdParents == {JNull, JNumber(1), JNumber(2)}
StoredThirdPaths == {<<>>, padId(3)}

\* a document with a root comment, a reply to it or to a missing comment,
\* and a third comment, every other key missing
pathFile(replyParent, replyPath, thirdParent, thirdPath, depth) ==
  [json |->
     [ comments |->
         << [storedComment(1, JNull, 0) EXCEPT !.path = padId(1)],
            [storedComment(2, replyParent, 1) EXCEPT !.path = replyPath],
            [storedComment(3, thirdParent, depth) EXCEPT !.path = thirdPath]
         >> ]]

PathFiles ==
  { pathFile(replyParent, replyPath, thirdParent, thirdPath, depth) :
      replyParent \in StoredReplyParents, replyPath \in StoredReplyPaths,
      thirdParent \in StoredThirdParents, thirdPath \in StoredThirdPaths,
      depth \in StoredDepths }

InitPaths ==
  /\ state = baseState
  /\ writeQueue = <<>>
  /\ isWriting = FALSE
  /\ disk \in PathFiles
  /\ tmp = Absent
  /\ fs = "ok"
  /\ proc = [at |-> "start", threw |-> FALSE]
  /\ pc = Idle
  /\ clock = 1
  /\ call = [op |-> "", args |-> <<>>, ret |-> Null, writes |-> 0]

SpecPaths == InitPaths /\ [][NextMigrate]_vars

\* the path the comment has by the rule of addComment: the parent's path,
\* a dot and the padded id, or the padded id alone for a root
pathByParent(st, comment) ==
  IF comment.parent_comment_id = Null THEN padId(comment.id)
  ELSE LET parent == getCommentRawById(st, comment.parent_comment_id[1]) IN
       IF parent = Null THEN <<>>
       ELSE parent[1].path \o <<CharDot>> \o padId(comment.id)

\* C34: after loadState of a stored document every comment with a parent
\* has the parent's path, a dot and its padded id as its path, and every
\* root comment its padded id
C34_PathsFollowParents ==
  (call.op = "loadState" /\ proc.at = "ready") =>
    \A i \in 1..Len(state.comments) :
      state.comments[i].path = pathByParent(state, state.comments[i])

\* what the code does: a stored path is kept as it is, and a missing path
\* becomes the padded id of the parent, a dot and the padded id, or the
\* padded id alone for a root
MissingPathsComeFromParentId ==
  [][ (call'.op = "loadState" /\ proc'.at = "ready" /\ "json" \in DOMAIN disk)
        => \A i \in 1..Len(state'.comments) :
             LET comment == state'.comments[i]
                 stored == disk.json.comments[i].path
             IN comment.path =
                  IF stored # <<>> THEN stored
                  ELSE IF comment.parent_comment_id = Null
                  THEN padId(comment.id)
                  ELSE padId(comment.parent_comment_id[1])
                         \o <<CharDot>> \o padId(comment.id) ]_vars

----------------------------------------------------------------------------
(* Hiding and unhiding posts and comments. *)

NextHide ==
  /\ UNCHANGED pc
  /\ \/ /\ state.counters.posts < MaxModTargets
        /\ createPost(1, 1, <<82, 101, 101, 108>>, "none", <<>>)
     \/ /\ state.counters.comments < MaxComments
        /\ \E parent_comment_id \in {Null, Some(1), Some(2)} :
             addComment(1, 1, "hi", parent_comment_id)
     \/ \E commentId \in CommentIdArgs : hideComment(commentId, "spam")
     \/ \E commentId \in CommentIdArgs : unhideComment(commentId)
     \/ \E postId \in PostIdArgs : hidePost(postId, "spam")
     \/ \E postId \in PostIdArgs : unhidePost(postId)

SpecHide == Init /\ [][NextHide]_vars

\* the state with the flag and the reason of one row of a collection set
withHidden(st, f, i, hidden, reason) ==
  [st EXCEPT ![f][i].is_hidden = hidden, ![f][i].hidden_reason = reason]

\* a step of hidePost, unhidePost, hideComment or unhideComment that finds
\* its record sets is_hidden and hidden_reason of that record and changes
\* nothing else in the state: no path, depth, parent_comment_id, post_id or
\* user_id of a comment, and no other record
hideChangesOnlyTheFlag ==
  /\ call'.op \in {"hideComment", "unhideComment"} /\ call'.ret # Null =>
       \E i \in 1..Len(state.comments) :
         /\ state.comments[i].id = call'.args.commentId
         /\ state' = withHidden(state, "comments", i,
                                call'.op = "hideComment",
                                IF call'.op = "hideComment" THEN "spam" ELSE "")
  /\ call'.op \in {"hidePost", "unhidePost"} /\ call'.ret # Null =>
       \E i \in 1..Len(state.posts) :
         /\ state.posts[i].id = call'.args.postId
         /\ state' = withHidden(state, "posts", i,
                                call'.op = "hidePost",
                                IF call'.op = "hidePost" THEN "spam" ELSE "")

\* hiding and then unhiding row i of the collection in this state leaves
\* every viewer the visible comments of every post that the state gives
hideUnhideRestores(st, f, i) ==
  LET back == withHidden(withHidden(st, f, i, TRUE, "spam"), f, i, FALSE, "")
  IN \A postId \in PostIds, viewer \in Viewers :
       getVisibleCommentsForPost(back, postId, viewer)
         = getVisibleCommentsForPost(st, postId, viewer)

\* C35 as stated: the four operations change only the flag and the reason
\* of the addressed record, and a hide followed by an unhide gives every
\* viewer the visible comment list the viewer had before the hide
C35_HideUnhideRestoresAlways ==
  /\ [][hideChangesOnlyTheFlag]_vars
  /\ [](\A f \in {"posts", "comments"} : \A i \in 1..Len(state[f]) :
          hideUnhideRestores(state, f, i))

\* C35, amended: the four operations change only the flag and the reason of
\* the addressed record, and a hide followed by an unhide of a record that
\* was not hidden before gives every viewer the visible comment list the
\* viewer had before the hide
C35_HideUnhideRestoresVisible ==
  /\ [][hideChangesOnlyTheFlag]_vars
  /\ [](\A f \in {"posts", "comments"} : \A i \in 1..Len(state[f]) :
          ~state[f][i].is_hidden => hideUnhideRestores(state, f, i))

\* a comment with a reply below it has been shown again: the two comments
\* have the paths and depths they were given, and the anonymous viewer
\* sees both
C35_Witness ==
  /\ call.op = "unhideComment"
  /\ call.ret # Null /\ call.ret[1].id = 1
  /\ Len(state.comments) = 2
  /\ state.comments[2].parent_comment_id = Some(1)
  /\ state.comments[2].path = padId(1) \o <<CharDot>> \o padId(2)
  /\ state.comments[2].depth = 1
  /\ Len(getVisibleCommentsForPost(state, 1, Null)) = 2

----------------------------------------------------------------------------
(* Admins: registration, role changes, suspension and ban by route. *)

\* the forms of the two visitors who register: Ann and Bob
AdminForms ==
  { [username |-> <<65, 110, 110>>, email |-> <<65, 64, 120, 46, 121>>],
    [username |-> <<66, 111, 98>>, email |-> <<98, 64, 120, 46, 121>>] }

NextAdmins ==
  \/ /\ state.counters.users < MaxUsers
     /\ \E form \in AdminForms :
          routeRegister(0, form.username, form.email, "secret")
  \/ routeRegisterToken
  \/ routeRegisterDone
  \/ /\ Len(state.moderation_actions) < MaxAdminActions
     /\ \E sessionUserId \in UserIds, userId \in UserIds :
          \/ \E role \in RoleArgs :
               routeSetUserRole(sessionUserId, userId, role)
          \/ routeSuspendUser(sessionUserId, userId)
          \/ routeBanUser(sessionUserId, userId)
  \/ routeAudit

SpecAdmins == Init /\ [][NextAdmins]_vars

\* C36: once a user has registered, every state has a user whose role is
\* admin, whatever roles the admins give and whomever they suspend or ban
C36_AlwaysAnAdmin ==
  Len(state.users) > 0 =>
    \E i \in 1..Len(state.users) : state.users[i].role = "admin"

\* the first user, who made the second an admin, has been demoted by the
\* second, who is now the only admin
C36_Witness ==
  /\ call.op = "updateUserRole"
  /\ call.args = [id |-> 1, role |-> "user"]
  /\ Len(state.users) = 2
  /\ state.users[1].role = "user"
  /\ state.users[2].role = "admin"

----------------------------------------------------------------------------
(* Migration of stored likes, bookmarks and comment reactions. *)

\* what a stored file can hold as likes and as bookmarks, each row given as
\* its user and post: none, one row, two users' rows, and one pair twice
StoredPairRows ==
  { <<>>, << <<1, 1>> >>, << <<1, 1>>, <<2, 1>> >>, << <<1, 1>>, <<1, 1>> >> }
\* what it can hold as the reactions of user 1 to comment 1, each row given
\* as its type: "wow" is no reaction type
StoredReactionTypes ==
  { <<>>, <<"like">>, <<"like", "heart">>, <<"like", "wow">>,
    <<"like", "like">> }

storedPair(id, pair) ==
  [ id |-> JNumber(id), user_id |-> JNumber(pair[1]),
    post_id |-> JNumber(pair[2]), created_at |-> 1 ]

storedReaction(id, reaction_type) ==
  [ id |-> JNumber(id), comment_id |-> JNumber(1), user_id |-> JNumber(1),
    reaction_type |-> reaction_type, created_at |-> 1 ]

\* a document with the given rows, numbered from 1, every other key missing
relationFile(likes, bookmarks, reactions) ==
  [json |->
     [ likes |-> [i \in 1..Len(likes) |-> storedPair(i, likes[i])],
       bookmarks |-> [i \in 1..Len(bookmarks) |-> storedPair(i, bookmarks[i])],
       comment_reactions |->
         [i \in 1..Len(reactions) |-> storedReaction(i, reactions[i])] ]]

RelationFiles ==
  { relationFile(likes, bookmarks, reactions) :
      likes \in StoredPairRows, bookmarks \in StoredPairRows,
      reactions \in StoredReactionTypes }

InitRelations ==
  /\ state = baseState
  /\ writeQueue = <<>>
  /\ isWriting = FALSE
  /\ disk \in RelationFiles
  /\ tmp = Absent
  /\ fs = "ok"
  /\ proc = [at |-> "start", threw |-> FALSE]
  /\ pc = Idle
  /\ clock = 1
  /\ call = [op |-> "", args |-> <<>>, ret |-> Null, writes |-> 0]

SpecRelations == InitRelations /\ [][NextMigrate]_vars

\* no two rows are reactions of one user to one comment with one type
onePerReaction(rows) ==
  \A i, j \in 1..Len(rows) :
    ( /\ rows[i].user_id = rows[j].user_id
      /\ rows[i].comment_id = rows[j].comment_id
      /\ rows[i].reaction_type = rows[j].reaction_type ) => i = j

\* C39: after loadState of a stored document, likes and bookmarks hold at
\* most one row per user and post, and comment_reactions at most one row
\* per user, comment and reaction type
C39_RelationsUniqueAfterLoad ==
  (call.op = "loadState" /\ proc.at = "ready") =>
    /\ onePerPair(state.likes)
    /\ onePerPair(state.bookmarks)
    /\ onePerReaction(state.comment_reactions)

\* what the code does: every stored row with positive ids is loaded, in the
\* stored order, whether or not an equal pair or reaction was loaded before
RelationRowsLoadedAsStored ==
  [][ (call'.op = "loadState" /\ proc'.at = "ready" /\ "json" \in DOMAIN disk)
        => /\ \A f \in {"likes", "bookmarks"} :
                /\ Len(state'[f]) = Len(disk.json[f])
                /\ \A i \in 1..Len(state'[f]) :
                     /\ state'[f][i].id = i
                     /\ state'[f][i].user_id = disk.json[f][i].user_id.n
                     /\ state'[f][i].post_id = disk.json[f][i].post_id.n
           /\ Len(state'.comment_reactions) = Len(disk.json.comment_reactions)
           /\ \A i \in 1..Len(state'.comment_reactions) :
                state'.comment_reactions[i].reaction_type
                  = IF isReaction(disk.json.comment_reactions[i].reaction_type)
                    THEN disk.json.comment_reactions[i].reaction_type
                    ELSE "like" ]_vars

Next ==
  \/ NextComments \/ NextReports \/ NextLikes \/ NextReactions \/ NextToggles
  \/ NextUsers \/ NextPosts \/ NextModeration
  \/ NextVisibility \/ NextFeed \/ NextTags \/ NextMissing \/ NextRoutes
  \/ NextRegister \/ NextFilter \/ NextHide \/ NextAdmins

Spec == Init /\ [][Next]_vars

====
